---- MODULE Spec2Model ----
(***************************************************************************)
(* The generation service of web/backend: the job registry, the            *)
(* single-slot admission gate (_current_job), the POST /start handler, the *)
(* background task PipelineService.start_generation and the executor       *)
(* thread PipelineService._generate_with_progress.                         *)
(*                                                                         *)
(* The event loop runs one coroutine at a time, so a handler (or the part  *)
(* of a coroutine before its first await) is one action.  The executor     *)
(* runs on a pool thread, concurrently with the event loop: every write it *)
(* makes to a field of the job is one action, because a handler on the     *)
(* event loop can read the job between any two of them.                    *)
(*                                                                         *)
(* GET /progress/{job_id} (a stream bridge) is a generator on the event    *)
(* loop: one action from each point where it is suspended to the next.     *)
(* _notify_progress runs on the executor thread and reads the callback     *)
(* dict twice; next to bridges these two reads are two actions.            *)
(***************************************************************************)
EXTENDS Integers, Sequences, FiniteSets, TLC

\* ---------------------------------------------------------------- bounds
\* Jobs the registry may hold (uuid4 ids are modelled as 1, 2, ...).
MaxJobs == 2
\* Largest frame budget a request asks for.
MaxFrames == 2

\* GET /progress connections the service sees (numbered in arrival order).
MaxBridges == 2
\* Keepalives one connection may be sent (timeouts of its queue.get()).
MaxKeepalives == 1
\* Frame budget of the job the connections watch.
BridgeFrames == 1

\* Threads that call load_pipeline.
MaxThreads == 2
\* Calls of load_pipeline one thread makes.
MaxLoadCalls == 2

\* POST /download requests that are accepted.
MaxDownloads == 2

\* ------------------------------------------------------------- constants
\* Milliseconds of audio per frame (max_audio_length_ms // 80).
FrameMs == 80

JobIds == 1..MaxJobs
Bridges == 1..MaxBridges
Threads == 1..MaxThreads
\* _current_job is None
NoJob == 0
\* Optional[str] fields that are None
NoError == "None"
NoPath == <<>>
\* No exception is being handled
NoExc == "NoExc"
\* str(e) of the exceptions the collaborators raise
Msgs == {"out of memory", "io error"}
\* The max_audio_length_ms values of the requests: one an exact multiple of
\* the frame length (MaxFrames frames), one not (MaxFrames - 1 frames and
\* half a frame more).
Durations == {FrameMs * MaxFrames,
              FrameMs * (MaxFrames - 1) + FrameMs \div 2}

\* JobStatus
QUEUED == "queued"
LOADING == "loading"
GENERATING == "generating"
COMPLETED == "completed"
FAILED == "failed"
JobStatus == {QUEUED, LOADING, GENERATING, COMPLETED, FAILED}
Terminal == {COMPLETED, FAILED}
Active == {LOADING, GENERATING}

\* A float progress value n/d, kept as the fraction it was computed from.
Frac(n, d) == <<n, d>>
FracLeq(a, b) == a[1] * b[2] <= b[1] * a[2]

\* f"/output/{job_id}.mp3"
OutputPath(job_id) == <<"/output/", job_id, ".mp3">>

\* max_audio_length_ms // 80
MaxAudioFrames(ms) == ms \div FrameMs

\* GenerationJob(...) with its dataclass defaults; the floats temperature
\* and cfg_scale are kept in hundredths (1.0 is 100).
GenerationJob(job_id, ms) ==
    [job_id |-> job_id,
     temperature |-> 100,
     topk |-> 50,
     cfg_scale |-> 150,
     max_audio_length_ms |-> ms,
     status |-> QUEUED,
     progress |-> Frac(0, 1),
     current_frame |-> 0,
     total_frames |-> 0,
     output_path |-> NoPath,
     error |-> NoError,
     started_at |-> FALSE,
     completed_at |-> FALSE]

\* What _notify_progress hands to the callbacks: the job as it is now.
Snapshot(job) ==
    [status |-> job.status, current_frame |-> job.current_frame,
     progress |-> job.progress, output_path |-> job.output_path,
     error |-> job.error]

\* No GET request has been answered yet.
NoReply == [handler |-> "none", code |-> 0, job |-> NoJob, body |-> <<>>]

\* What a client holds before its connection has yielded anything.
NothingSent ==
    [n |-> 0, terminals |-> 0, keepalives |-> 0, late |-> 0, frame |-> 0]

\* None, for the Optional[str] values of the models and settings routers
None == "None"

\* REQUIRED_MODELS: name (= subdir) and repo of each
REQUIRED_MODELS ==
    << [name |-> "HeartCodec-oss", repo |-> "HeartMuLa/HeartCodec-oss",
        is_file |-> FALSE],
       [name |-> "HeartMuLa-oss-3B", repo |-> "HeartMuLa/HeartMuLa-oss-3B",
        is_file |-> FALSE],
       [name |-> "tokenizer.json", repo |-> "HeartMuLa/HeartMuLaGen",
        is_file |-> TRUE],
       [name |-> "gen_config.json", repo |-> "HeartMuLa/HeartMuLaGen",
        is_file |-> TRUE] >>

Downloads == 1..MaxDownloads

\* _download_status as the module is imported
NoDownload ==
    [is_downloading |-> FALSE, current_model |-> None, progress |-> 0,
     error |-> None]

\* No background task was added for this request (yet).
NoTask == [at |-> "none", todo |-> <<>>, i |-> 0]

\* PROVIDERS: per provider id its models and its default_model
PROVIDERS ==
    [openai |->
        [models |-> {"gpt-4o", "gpt-4o-mini", "gpt-4-turbo", "gpt-3.5-turbo"},
         default_model |-> "gpt-4o"],
     anthropic |->
        [models |-> {"claude-sonnet-4-20250514", "claude-3-5-sonnet-20241022",
                     "claude-3-haiku-20240307"},
         default_model |-> "claude-sonnet-4-20250514"],
     ollama |->
        [models |-> {"llama3.2", "llama3.1", "mistral", "mixtral"},
         default_model |-> "llama3.2"]]

\* "api_keys": {}: no provider has a key
NoKeys == [p \in DOMAIN PROVIDERS |-> None]

VARIABLES
    jobs,        \* PipelineService._jobs: sequence of GenerationJob, index = job id
    currentJob,  \* PipelineService._current_job (NoJob = None)
    pipeline,    \* PipelineService._pipeline is not None
    pc,          \* per job id: where its background task / executor stands
    idx,         \* per job id: the loop variable i of _forward_with_progress
    exc,         \* per job id: the exception raised in the executor, if any
    calls,       \* per job id: calls its running executor made to each step
    notifyLog,   \* per job id: the snapshots _notify_progress was called with
    releases,    \* per job id: executions of `self._current_job = None`
    lastResp,    \* what the last POST /start answered: [code, job]
    callbacks,   \* PipelineService._progress_callbacks: per job id the list
                 \* of the bridges whose on_progress is registered; <<>> =
                 \* the dict has no such key
    bpc,         \* per bridge: where its event_generator stands
    bjob,        \* per bridge: the job_id of its GET /progress/{job_id}
    regAt,       \* per bridge: notifications issued when it registered
    received,    \* per bridge: the notifications put into its queue
    taken,       \* per bridge: how many of them queue.get() has returned
    sent,        \* per bridge: what it has yielded to its client: how
                 \* many events, how many of them terminal snapshots, how
                 \* many keepalives, how many after a terminal snapshot,
                 \* the current_frame of the latest snapshot
    reply,       \* what the last GET handler answered:
                 \* [handler, code, job, body]
    lock,        \* PipelineService._lock: the thread that holds it (0 = free)
    lpc,         \* per thread: where its call of load_pipeline stands
    built,       \* how often from_pretrained has returned a pipeline
    loadCalls,   \* per thread: calls of load_pipeline it has made
    loadResult,  \* per thread: how its latest call of load_pipeline ended
    downloadStatus,  \* models._download_status
    present,     \* the REQUIRED_MODELS whose path exists under model_path
    dtask,       \* per accepted POST /download: where its background task
                 \* download_all_models stands, and its locals
    dlResp,      \* what the last POST /download answered: [code, status]
    runtimeSettings, \* app_settings._runtime_settings
    llmService,  \* llm_service: _provider_name, _model, _api_keys
    putResp      \* what the last PUT /llm answered: [code]

bridgeVars == <<callbacks, bpc, bjob, regAt, received, taken, sent>>

serviceVars == <<jobs, currentJob, pipeline, pc, idx, exc, calls, notifyLog,
                 releases, lastResp>>

loaderVars == <<lock, lpc, built, loadCalls, loadResult>>

downloadVars == <<downloadStatus, present, dtask, dlResp>>

llmVars == <<runtimeSettings, llmService, putResp>>

auxVars == <<reply, loaderVars, downloadVars, llmVars>>

vars == <<jobs, currentJob, pipeline, pc, idx, exc, calls, notifyLog,
          releases, lastResp, bridgeVars, auxVars>>

Steps == {"load", "sanitize", "preprocess", "seed", "frame", "decode", "save"}

Created == DOMAIN jobs

Init ==
    /\ jobs = <<>>
    /\ currentJob = NoJob
    /\ pipeline = FALSE
    /\ pc = [j \in JobIds |-> "none"]
    /\ idx = [j \in JobIds |-> 0]
    /\ exc = [j \in JobIds |-> NoExc]
    /\ calls = [j \in JobIds |-> [s \in Steps |-> 0]]
    /\ notifyLog = [j \in JobIds |-> <<>>]
    /\ releases = [j \in JobIds |-> 0]
    /\ lastResp = [code |-> 0, job |-> NoJob]
    /\ callbacks = [j \in JobIds |-> <<>>]
    /\ bpc = [b \in Bridges |-> "idle"]
    /\ bjob = [b \in Bridges |-> NoJob]
    /\ regAt = [b \in Bridges |-> 0]
    /\ received = [b \in Bridges |-> <<>>]
    /\ taken = [b \in Bridges |-> 0]
    /\ sent = [b \in Bridges |-> NothingSent]
    /\ reply = NoReply
    /\ lock = 0
    /\ lpc = [t \in Threads |-> "idle"]
    /\ built = 0
    /\ loadCalls = [t \in Threads |-> 0]
    /\ loadResult = [t \in Threads |-> "none"]
    /\ downloadStatus = NoDownload
    /\ present = {}
    /\ dtask = [r \in Downloads |-> NoTask]
    /\ dlResp = [code |-> 0, status |-> "none"]
    /\ runtimeSettings = [provider |-> "openai", model |-> "gpt-4o",
                          api_keys |-> NoKeys]
    /\ llmService = [provider_name |-> "openai", model |-> "gpt-4o",
                     api_keys |-> NoKeys]
    /\ putResp = [code |-> 0]

\* ------------------------------------------------------- event loop side

\* POST /start when _current_job is not None: HTTP 429, nothing created.
PostStartBusy ==
    /\ currentJob # NoJob
    /\ lastResp' = [code |-> 429, job |-> NoJob]
    /\ UNCHANGED <<jobs, currentJob, pipeline, pc, idx, exc, calls,
                   notifyLog, releases>>
    /\ UNCHANGED bridgeVars
    /\ UNCHANGED auxVars

\* POST /start when _current_job is None: create_job, add the background
\* task, answer 200 with the job id.  The gate is not touched here.
PostStartAccept(ms) ==
    /\ currentJob = NoJob
    /\ Len(jobs) < MaxJobs
    /\ LET job_id == Len(jobs) + 1 IN
        /\ jobs' = Append(jobs, GenerationJob(job_id, ms))
        /\ pc' = [pc EXCEPT ![job_id] = "pending"]
        /\ lastResp' = [code |-> 200, job |-> job_id]
    /\ UNCHANGED <<currentJob, pipeline, idx, exc, calls, notifyLog, releases>>
    /\ UNCHANGED bridgeVars
    /\ UNCHANGED auxVars

\* The background task start_generation(job), gate occupied: RuntimeError.
StartTaskReject(j) ==
    /\ pc[j] = "pending"
    /\ currentJob # NoJob
    /\ pc' = [pc EXCEPT ![j] = "rejected"]
    /\ UNCHANGED <<jobs, currentJob, pipeline, idx, exc, calls, notifyLog,
                   releases, lastResp>>
    /\ UNCHANGED bridgeVars
    /\ UNCHANGED auxVars

\* Mutant of StartTaskAcquire: the slot is taken without looking at it.
StartTaskAcquire_NoCheck(j) ==
    /\ pc[j] = "pending"
    /\ currentJob' = j
    /\ pc' = [pc EXCEPT ![j] = "set_loading"]
    /\ UNCHANGED <<jobs, pipeline, idx, exc, calls, notifyLog, releases,
                   lastResp>>
    /\ UNCHANGED bridgeVars
    /\ UNCHANGED auxVars

\* The background task start_generation(job), gate free: take the slot and
\* hand _generate_with_progress to the thread pool.
StartTaskAcquire(j) ==
    /\ pc[j] = "pending"
    /\ currentJob = NoJob
    /\ currentJob' = j
    /\ pc' = [pc EXCEPT ![j] = "set_loading"]
    /\ UNCHANGED <<jobs, pipeline, idx, exc, calls, notifyLog, releases,
                   lastResp>>
    /\ UNCHANGED bridgeVars
    /\ UNCHANGED auxVars

\* ------------------------------------------------------- executor thread

\* _notify_progress(job_id): the callbacks get the job as it is now.
NotifyProgress(j) ==
    notifyLog' = [notifyLog EXCEPT ![j] = Append(@, Snapshot(jobs[j]))]

Goto(j, label) == pc' = [pc EXCEPT ![j] = label]

Called(j, step) == calls' = [calls EXCEPT ![j][step] = @ + 1]

\* job.status = LOADING; job.started_at = now()
ExecSetLoading(j) ==
    /\ pc[j] = "set_loading"
    /\ jobs' = [jobs EXCEPT ![j].status = LOADING, ![j].started_at = TRUE]
    /\ Goto(j, "notify_loading")
    /\ UNCHANGED <<currentJob, pipeline, idx, exc, calls, notifyLog,
                   releases, lastResp>>
    /\ UNCHANGED bridgeVars
    /\ UNCHANGED auxVars

ExecNotifyLoading(j) ==
    /\ pc[j] = "notify_loading"
    /\ NotifyProgress(j)
    /\ Goto(j, "load")
    /\ UNCHANGED <<jobs, currentJob, pipeline, idx, exc, calls, releases,
                   lastResp>>
    /\ UNCHANGED bridgeVars
    /\ UNCHANGED auxVars

\* load_pipeline() with the pipeline already there: returns at once.
ExecLoadSkip(j) ==
    /\ pc[j] = "load"
    /\ pipeline
    /\ Goto(j, "set_generating")
    /\ UNCHANGED <<jobs, currentJob, pipeline, idx, exc, calls, notifyLog,
                   releases, lastResp>>
    /\ UNCHANGED bridgeVars
    /\ UNCHANGED auxVars

\* load_pipeline() builds the pipeline.
ExecLoadOk(j) ==
    /\ pc[j] = "load"
    /\ ~pipeline
    /\ pipeline' = TRUE
    /\ Called(j, "load")
    /\ Goto(j, "set_generating")
    /\ UNCHANGED <<jobs, currentJob, idx, exc, notifyLog, releases,
                   lastResp>>
    /\ UNCHANGED bridgeVars
    /\ UNCHANGED auxVars

\* load_pipeline() re-raises what from_pretrained raised.  The call stands
\* outside the try of _generate_with_progress: the exception leaves the
\* executor, and nothing after the call runs.
ExecLoadRaise(j, msg) ==
    /\ pc[j] = "load"
    /\ ~pipeline
    /\ Called(j, "load")
    /\ exc' = [exc EXCEPT ![j] = msg]
    /\ Goto(j, "raised")
    /\ UNCHANGED <<jobs, currentJob, pipeline, idx, notifyLog, releases,
                   lastResp>>
    /\ UNCHANGED bridgeVars
    /\ UNCHANGED auxVars

\* job.status = GENERATING
ExecSetGenerating(j) ==
    /\ pc[j] = "set_generating"
    /\ jobs' = [jobs EXCEPT ![j].status = GENERATING]
    /\ Goto(j, "notify_generating")
    /\ UNCHANGED <<currentJob, pipeline, idx, exc, calls, notifyLog,
                   releases, lastResp>>
    /\ UNCHANGED bridgeVars
    /\ UNCHANGED auxVars

ExecNotifyGenerating(j) ==
    /\ pc[j] = "notify_generating"
    /\ NotifyProgress(j)
    /\ Goto(j, "sanitize")
    /\ UNCHANGED <<jobs, currentJob, pipeline, idx, exc, calls, releases,
                   lastResp>>
    /\ UNCHANGED bridgeVars
    /\ UNCHANGED auxVars

\* A collaborator call inside the try: it returns, and the executor goes on
\* at `next`.
CallOk(j, step, next) ==
    /\ Called(j, step)
    /\ Goto(j, next)
    /\ UNCHANGED <<jobs, currentJob, pipeline, idx, exc, notifyLog,
                   releases, lastResp>>
    /\ UNCHANGED bridgeVars
    /\ UNCHANGED auxVars

\* A collaborator call inside the try raises: control goes to the except
\* clause with the exception bound to e.
CallRaise(j, step, msg) ==
    /\ Called(j, step)
    /\ exc' = [exc EXCEPT ![j] = msg]
    /\ Goto(j, "set_failed")
    /\ UNCHANGED <<jobs, currentJob, pipeline, idx, notifyLog, releases,
                   lastResp>>
    /\ UNCHANGED bridgeVars
    /\ UNCHANGED auxVars

\* self._pipeline._sanitize_parameters(...)
ExecSanitizeOk(j) ==
    /\ pc[j] = "sanitize"
    /\ CallOk(j, "sanitize", "preprocess")

ExecSanitizeRaise(j, msg) ==
    /\ pc[j] = "sanitize"
    /\ CallRaise(j, "sanitize", msg)

\* self._pipeline.preprocess(inputs, ...)
ExecPreprocessOk(j) ==
    /\ pc[j] = "preprocess"
    /\ CallOk(j, "preprocess", "set_total")

ExecPreprocessRaise(j, msg) ==
    /\ pc[j] = "preprocess"
    /\ CallRaise(j, "preprocess", msg)

\* Mutant of ExecSetTotalFrames: the frame budget is rounded up.
ExecSetTotalFrames_RoundsUp(j) ==
    /\ pc[j] = "set_total"
    /\ jobs' = [jobs EXCEPT ![j].total_frames =
                    (jobs[j].max_audio_length_ms + FrameMs - 1) \div FrameMs]
    /\ pc' = [pc EXCEPT ![j] = "seed"]
    /\ UNCHANGED <<currentJob, pipeline, idx, exc, calls, notifyLog,
                   releases, lastResp>>
    /\ UNCHANGED bridgeVars
    /\ UNCHANGED auxVars

\* job.total_frames = job.max_audio_length_ms // 80
ExecSetTotalFrames(j) ==
    /\ pc[j] = "set_total"
    /\ jobs' = [jobs EXCEPT ![j].total_frames =
                    MaxAudioFrames(jobs[j].max_audio_length_ms)]
    /\ Goto(j, "seed")
    /\ UNCHANGED <<currentJob, pipeline, idx, exc, calls, notifyLog,
                   releases, lastResp>>
    /\ UNCHANGED bridgeVars
    /\ UNCHANGED auxVars

\* _forward_with_progress up to the loop: setup_caches and the first
\* generate_frame, whose frame is kept without touching the job.
ExecSeedOk(j) ==
    /\ pc[j] = "seed"
    /\ Called(j, "seed")
    /\ idx' = [idx EXCEPT ![j] = 0]
    /\ Goto(j, "loop")
    /\ UNCHANGED <<jobs, currentJob, pipeline, exc, notifyLog, releases,
                   lastResp>>
    /\ UNCHANGED bridgeVars
    /\ UNCHANGED auxVars

ExecSeedRaise(j, msg) ==
    /\ pc[j] = "seed"
    /\ CallRaise(j, "seed", msg)

\* for i in range(max_audio_frames): the range is not exhausted
LoopHasNext(j) ==
    idx[j] < MaxAudioFrames(jobs[j].max_audio_length_ms)

\* generate_frame returns a frame that is not end-of-sequence: it is kept.
ExecFrameOk(j) ==
    /\ pc[j] = "loop"
    /\ LoopHasNext(j)
    /\ CallOk(j, "frame", "set_frame")

\* Mutant of ExecFrameEos: end-of-sequence is handled as an error.
ExecFrameEos_AsError(j) ==
    /\ pc[j] = "loop"
    /\ idx[j] < MaxAudioFrames(jobs[j].max_audio_length_ms)
    /\ calls' = [calls EXCEPT ![j]["frame"] = @ + 1]
    /\ exc' = [exc EXCEPT ![j] = "end of sequence"]
    /\ pc' = [pc EXCEPT ![j] = "set_failed"]
    /\ UNCHANGED <<jobs, currentJob, pipeline, idx, notifyLog, releases,
                   lastResp>>
    /\ UNCHANGED bridgeVars
    /\ UNCHANGED auxVars

\* generate_frame returns a frame holding audio_eos_id: break.
ExecFrameEos(j) ==
    /\ pc[j] = "loop"
    /\ LoopHasNext(j)
    /\ CallOk(j, "frame", "decode")

ExecFrameRaise(j, msg) ==
    /\ pc[j] = "loop"
    /\ LoopHasNext(j)
    /\ CallRaise(j, "frame", msg)

\* The range is exhausted: the loop ends.
ExecLoopExit(j) ==
    /\ pc[j] = "loop"
    /\ ~LoopHasNext(j)
    /\ Goto(j, "decode")
    /\ UNCHANGED <<jobs, currentJob, pipeline, idx, exc, calls, notifyLog,
                   releases, lastResp>>
    /\ UNCHANGED bridgeVars
    /\ UNCHANGED auxVars

\* job.current_frame = i + 1
ExecSetCurrentFrame(j) ==
    /\ pc[j] = "set_frame"
    /\ jobs' = [jobs EXCEPT ![j].current_frame = idx[j] + 1]
    /\ Goto(j, "set_progress")
    /\ UNCHANGED <<currentJob, pipeline, idx, exc, calls, notifyLog,
                   releases, lastResp>>
    /\ UNCHANGED bridgeVars
    /\ UNCHANGED auxVars

\* job.progress = (i + 1) / max_audio_frames
ExecSetProgress(j) ==
    /\ pc[j] = "set_progress"
    /\ jobs' = [jobs EXCEPT ![j].progress =
                    Frac(idx[j] + 1, MaxAudioFrames(jobs[j].max_audio_length_ms))]
    /\ Goto(j, "notify_frame")
    /\ UNCHANGED <<currentJob, pipeline, idx, exc, calls, notifyLog,
                   releases, lastResp>>
    /\ UNCHANGED bridgeVars
    /\ UNCHANGED auxVars

\* Mutant of ExecNotifyFrame: only every second frame is notified.
ExecNotifyFrame_Batched(j) ==
    /\ pc[j] = "notify_frame"
    /\ notifyLog' = IF (idx[j] + 1) % 2 = 0
                    THEN [notifyLog EXCEPT ![j] = Append(@, Snapshot(jobs[j]))]
                    ELSE notifyLog
    /\ idx' = [idx EXCEPT ![j] = @ + 1]
    /\ pc' = [pc EXCEPT ![j] = "loop"]
    /\ UNCHANGED <<jobs, currentJob, pipeline, exc, calls, releases,
                   lastResp>>
    /\ UNCHANGED bridgeVars
    /\ UNCHANGED auxVars

\* self._notify_progress(job.job_id), then the next iteration
ExecNotifyFrame(j) ==
    /\ pc[j] = "notify_frame"
    /\ NotifyProgress(j)
    /\ idx' = [idx EXCEPT ![j] = @ + 1]
    /\ Goto(j, "loop")
    /\ UNCHANGED <<jobs, currentJob, pipeline, exc, calls, releases,
                   lastResp>>
    /\ UNCHANGED bridgeVars
    /\ UNCHANGED auxVars

\* Mutant of ExecDecodeOk: the job is marked COMPLETED as soon as the audio
\* is decoded, before it is saved.
ExecDecodeOk_CompletesEarly(j) ==
    /\ pc[j] = "decode"
    /\ calls' = [calls EXCEPT ![j]["decode"] = @ + 1]
    /\ jobs' = [jobs EXCEPT ![j].status = COMPLETED]
    /\ pc' = [pc EXCEPT ![j] = "save"]
    /\ UNCHANGED <<currentJob, pipeline, idx, exc, notifyLog, releases,
                   lastResp>>
    /\ UNCHANGED bridgeVars
    /\ UNCHANGED auxVars

\* torch.stack(frames)...; audio_codec.detokenize(frames)
ExecDecodeOk(j) ==
    /\ pc[j] = "decode"
    /\ CallOk(j, "decode", "save")

ExecDecodeRaise(j, msg) ==
    /\ pc[j] = "decode"
    /\ CallRaise(j, "decode", msg)

\* torchaudio.save(str(output_path), wav, 48000)
ExecSaveOk(j) ==
    /\ pc[j] = "save"
    /\ CallOk(j, "save", "set_output")

\* Mutant of ExecSaveRaise: job.output_path is assigned before
\* torchaudio.save is called, and the call raises.
ExecSaveRaise_PathFirst(j, msg) ==
    /\ pc[j] = "save"
    /\ calls' = [calls EXCEPT ![j]["save"] = @ + 1]
    /\ jobs' = [jobs EXCEPT ![j].output_path = OutputPath(jobs[j].job_id)]
    /\ exc' = [exc EXCEPT ![j] = msg]
    /\ pc' = [pc EXCEPT ![j] = "set_failed"]
    /\ UNCHANGED <<currentJob, pipeline, idx, notifyLog, releases, lastResp>>
    /\ UNCHANGED bridgeVars
    /\ UNCHANGED auxVars

ExecSaveRaise(j, msg) ==
    /\ pc[j] = "save"
    /\ CallRaise(j, "save", msg)

\* job.output_path = f"/output/{output_filename}"
ExecSetOutputPath(j) ==
    /\ pc[j] = "set_output"
    /\ jobs' = [jobs EXCEPT ![j].output_path = OutputPath(jobs[j].job_id)]
    /\ Goto(j, "set_completed")
    /\ UNCHANGED <<currentJob, pipeline, idx, exc, calls, notifyLog,
                   releases, lastResp>>
    /\ UNCHANGED bridgeVars
    /\ UNCHANGED auxVars

\* job.status = COMPLETED
ExecSetCompleted(j) ==
    /\ pc[j] = "set_completed"
    /\ jobs' = [jobs EXCEPT ![j].status = COMPLETED]
    /\ Goto(j, "set_progress_one")
    /\ UNCHANGED <<currentJob, pipeline, idx, exc, calls, notifyLog,
                   releases, lastResp>>
    /\ UNCHANGED bridgeVars
    /\ UNCHANGED auxVars

\* job.progress = 1.0; job.completed_at = now()
ExecSetProgressOne(j) ==
    /\ pc[j] = "set_progress_one"
    /\ jobs' = [jobs EXCEPT ![j].progress = Frac(1, 1),
                            ![j].completed_at = TRUE]
    /\ Goto(j, "notify_final")
    /\ UNCHANGED <<currentJob, pipeline, idx, exc, calls, notifyLog,
                   releases, lastResp>>
    /\ UNCHANGED bridgeVars
    /\ UNCHANGED auxVars

\* Mutant of ExecSetFailed: the except clause gives the slot back itself,
\* before the failure is published.
ExecSetFailed_ReleasesEarly(j) ==
    /\ pc[j] = "set_failed"
    /\ jobs' = [jobs EXCEPT ![j].status = FAILED]
    /\ currentJob' = NoJob
    /\ releases' = [releases EXCEPT ![j] = @ + 1]
    /\ pc' = [pc EXCEPT ![j] = "set_error"]
    /\ UNCHANGED <<pipeline, idx, exc, calls, notifyLog, lastResp>>
    /\ UNCHANGED bridgeVars
    /\ UNCHANGED auxVars

\* except Exception as e: job.status = FAILED
ExecSetFailed(j) ==
    /\ pc[j] = "set_failed"
    /\ jobs' = [jobs EXCEPT ![j].status = FAILED]
    /\ Goto(j, "set_error")
    /\ UNCHANGED <<currentJob, pipeline, idx, exc, calls, notifyLog,
                   releases, lastResp>>
    /\ UNCHANGED bridgeVars
    /\ UNCHANGED auxVars

\* Mutant of ExecSetError: a fixed text is stored instead of str(e).
ExecSetError_FixedText(j) ==
    /\ pc[j] = "set_error"
    /\ jobs' = [jobs EXCEPT ![j].error = "Generation failed",
                            ![j].completed_at = TRUE]
    /\ pc' = [pc EXCEPT ![j] = "notify_final"]
    /\ UNCHANGED <<currentJob, pipeline, idx, exc, calls, notifyLog,
                   releases, lastResp>>
    /\ UNCHANGED bridgeVars
    /\ UNCHANGED auxVars

\* job.error = str(e); job.completed_at = now()
ExecSetError(j) ==
    /\ pc[j] = "set_error"
    /\ jobs' = [jobs EXCEPT ![j].error = exc[j], ![j].completed_at = TRUE]
    /\ Goto(j, "notify_final")
    /\ UNCHANGED <<currentJob, pipeline, idx, exc, calls, notifyLog,
                   releases, lastResp>>
    /\ UNCHANGED bridgeVars
    /\ UNCHANGED auxVars

\* Mutant of ExecNotifyFinal: the notification is part of the success path
\* only.
ExecNotifyFinal_SuccessOnly(j) ==
    /\ pc[j] = "notify_final"
    /\ notifyLog' = IF jobs[j].status = COMPLETED
                    THEN [notifyLog EXCEPT ![j] = Append(@, Snapshot(jobs[j]))]
                    ELSE notifyLog
    /\ pc' = [pc EXCEPT ![j] = "release"]
    /\ UNCHANGED <<jobs, currentJob, pipeline, idx, exc, calls, releases,
                   lastResp>>
    /\ UNCHANGED bridgeVars
    /\ UNCHANGED auxVars

\* self._notify_progress(job.job_id) after the try statement
ExecNotifyFinal(j) ==
    /\ pc[j] = "notify_final"
    /\ NotifyProgress(j)
    /\ Goto(j, "release")
    /\ UNCHANGED <<jobs, currentJob, pipeline, idx, exc, calls, releases,
                   lastResp>>
    /\ UNCHANGED bridgeVars
    /\ UNCHANGED auxVars

\* self._current_job = None, and the executor returns: its locals (i, e)
\* are gone, and so is the count of what this execution called.
ExecRelease(j) ==
    /\ pc[j] = "release"
    /\ currentJob' = NoJob
    /\ releases' = [releases EXCEPT ![j] = @ + 1]
    /\ idx' = [idx EXCEPT ![j] = 0]
    /\ exc' = [exc EXCEPT ![j] = NoExc]
    /\ calls' = [calls EXCEPT ![j] = [s \in Steps |-> 0]]
    /\ Goto(j, "done")
    /\ UNCHANGED <<jobs, pipeline, notifyLog, lastResp>>
    /\ UNCHANGED bridgeVars
    /\ UNCHANGED auxVars

ExecStep(j) ==
    \/ ExecSetLoading(j)
    \/ ExecNotifyLoading(j)
    \/ ExecLoadSkip(j)
    \/ ExecLoadOk(j)
    \/ \E msg \in Msgs : ExecLoadRaise(j, msg)
    \/ ExecSetGenerating(j)
    \/ ExecNotifyGenerating(j)
    \/ ExecSanitizeOk(j)
    \/ \E msg \in Msgs : ExecSanitizeRaise(j, msg)
    \/ ExecPreprocessOk(j)
    \/ \E msg \in Msgs : ExecPreprocessRaise(j, msg)
    \/ ExecSetTotalFrames(j)
    \/ ExecSeedOk(j)
    \/ \E msg \in Msgs : ExecSeedRaise(j, msg)
    \/ ExecFrameOk(j)
    \/ ExecFrameEos(j)
    \/ \E msg \in Msgs : ExecFrameRaise(j, msg)
    \/ ExecLoopExit(j)
    \/ ExecSetCurrentFrame(j)
    \/ ExecSetProgress(j)
    \/ ExecNotifyFrame(j)
    \/ ExecDecodeOk(j)
    \/ \E msg \in Msgs : ExecDecodeRaise(j, msg)
    \/ ExecSaveOk(j)
    \/ \E msg \in Msgs : ExecSaveRaise(j, msg)
    \/ ExecSetOutputPath(j)
    \/ ExecSetCompleted(j)
    \/ ExecSetProgressOne(j)
    \/ ExecSetFailed(j)
    \/ ExecSetError(j)
    \/ ExecNotifyFinal(j)
    \/ ExecRelease(j)

Next ==
    \/ PostStartBusy
    \/ \E ms \in Durations : PostStartAccept(ms)
    \/ \E j \in JobIds : StartTaskReject(j)
    \/ \E j \in JobIds : StartTaskAcquire(j)
    \/ \E j \in JobIds : ExecStep(j)

Spec == Init /\ [][Next]_vars

\* ------------------------------------------------ end-of-sequence scenario
\* One request of ScenarioMs milliseconds, served by a collaborator that
\* never raises and may signal end-of-sequence on any pass of the loop.
ScenarioMs == 80000

ScenarioExecStep(j) ==
    \/ ExecSetLoading(j)
    \/ ExecNotifyLoading(j)
    \/ ExecLoadOk(j)
    \/ ExecSetGenerating(j)
    \/ ExecNotifyGenerating(j)
    \/ ExecSanitizeOk(j)
    \/ ExecPreprocessOk(j)
    \/ ExecSetTotalFrames(j)
    \/ ExecSeedOk(j)
    \/ ExecFrameOk(j)
    \/ ExecFrameEos(j)
    \/ ExecLoopExit(j)
    \/ ExecSetCurrentFrame(j)
    \/ ExecSetProgress(j)
    \/ ExecNotifyFrame(j)
    \/ ExecDecodeOk(j)
    \/ ExecSaveOk(j)
    \/ ExecSetOutputPath(j)
    \/ ExecSetCompleted(j)
    \/ ExecSetProgressOne(j)
    \/ ExecNotifyFinal(j)
    \/ ExecRelease(j)

ScenarioNext ==
    \/ (jobs = <<>> /\ PostStartAccept(ScenarioMs))
    \/ \E j \in JobIds : StartTaskAcquire(j)
    \/ \E j \in JobIds : ScenarioExecStep(j)

ScenarioSpec == Init /\ [][ScenarioNext]_vars

\* ------------------------------------------------------ stream bridges
\* GET /progress/{job_id}: stream_progress and its event_generator run on
\* the event loop; a bridge is suspended at each yield (the event is with
\* the client) and at the await of queue.get().  The executor calls
\* _notify_progress on its own thread.

\* str(KeyError(job_id))
KeyErrorText(job_id) == "'" \o ToString(job_id) \o "'"

\* _job_to_dict(job)
JobToDict(job) ==
    [job_id |-> job.job_id,
     status |-> job.status,
     progress |-> job.progress,
     current_frame |-> job.current_frame,
     total_frames |-> job.total_frames,
     output_path |-> job.output_path,
     error |-> job.error]

\* f"data: {json.dumps(_job_to_dict(job))}\n\n"
DataEvent(job) == [kind |-> "data", data |-> JobToDict(job)]
\* f": keepalive\n\n"
KeepaliveEvent == [kind |-> "keepalive"]

\* An event that carries a job in COMPLETED or FAILED.
IsTerminalSnapshot(event) ==
    event.kind = "data" /\ event.data.status \in Terminal

\* yield event: it is with the client.
Yield(b, event) ==
    sent' = [sent EXCEPT ![b] =
        [n |-> @.n + 1,
         terminals |-> @.terminals + (IF IsTerminalSnapshot(event) THEN 1 ELSE 0),
         keepalives |-> @.keepalives + (IF event.kind = "keepalive" THEN 1 ELSE 0),
         late |-> @.late + (IF @.terminals > 0 THEN 1 ELSE 0),
         frame |-> IF event.kind = "data" THEN event.data.current_frame
                   ELSE @.frame]]

\* unregister_progress_callbacks(job_id): self._progress_callbacks.pop(job_id, None)
UnregisterProgressCallbacks(j) ==
    callbacks' = [callbacks EXCEPT ![j] = <<>>]

\* The generator starts: queue = asyncio.Queue(),
\* register_progress_callback(job_id, on_progress), and the first yield
\* with the job as it is now.
BridgeOpen(b, j) ==
    /\ bpc[b] = "idle"
    /\ \A c \in Bridges : c < b => bpc[c] # "idle"
    /\ j \in Created
    /\ bjob' = [bjob EXCEPT ![b] = j]
    /\ callbacks' = [callbacks EXCEPT ![j] = Append(@, b)]
    /\ regAt' = [regAt EXCEPT ![b] = Len(notifyLog[j])]
    /\ Yield(b, DataEvent(jobs[j]))
    /\ bpc' = [bpc EXCEPT ![b] = "sent_initial"]
    /\ UNCHANGED <<received, taken>>
    /\ UNCHANGED serviceVars
    /\ UNCHANGED auxVars

\* The generator is over: its queue is gone with it.
DropQueue(b) ==
    /\ regAt' = [regAt EXCEPT ![b] = 0]
    /\ received' = [received EXCEPT ![b] = <<>>]
    /\ taken' = [taken EXCEPT ![b] = 0]

\* The stream ends: the finally clause runs and the generator is over.
BridgeEnd(b) ==
    /\ UnregisterProgressCallbacks(bjob[b])
    /\ bpc' = [bpc EXCEPT ![b] = "closed"]
    /\ DropQueue(b)
    /\ UNCHANGED <<bjob, sent>>
    /\ UNCHANGED serviceVars
    /\ UNCHANGED auxVars

BridgeGoto(b, label) ==
    /\ bpc' = [bpc EXCEPT ![b] = label]
    /\ UNCHANGED <<callbacks, bjob, regAt, received, taken, sent>>
    /\ UNCHANGED serviceVars
    /\ UNCHANGED auxVars

\* Mutant of BridgeReturnAfterInitial: the generator goes on into the loop.
BridgeReturnAfterInitial_Stays(b) ==
    /\ bpc[b] = "sent_initial"
    /\ jobs[bjob[b]].status \in Terminal
    /\ bpc' = [bpc EXCEPT ![b] = "waiting"]
    /\ UNCHANGED <<callbacks, bjob, regAt, received, taken, sent>>
    /\ UNCHANGED serviceVars
    /\ UNCHANGED auxVars

\* Resumed after the first yield: if job.status in (COMPLETED, FAILED): return
BridgeReturnAfterInitial(b) ==
    /\ bpc[b] = "sent_initial"
    /\ jobs[bjob[b]].status \in Terminal
    /\ BridgeEnd(b)

\* Resumed after the first yield, job not terminal: while True, and the
\* generator awaits queue.get().
BridgeEnterLoop(b) ==
    /\ bpc[b] = "sent_initial"
    /\ jobs[bjob[b]].status \notin Terminal
    /\ BridgeGoto(b, "waiting")

\* queue.get() returns the oldest item, a reference to the job: the yield
\* serialises the job as it is now.
BridgeGet(b) ==
    /\ bpc[b] = "waiting"
    /\ taken[b] < Len(received[b])
    /\ taken' = [taken EXCEPT ![b] = @ + 1]
    /\ Yield(b, DataEvent(jobs[bjob[b]]))
    /\ bpc' = [bpc EXCEPT ![b] = "sent_update"]
    /\ UNCHANGED <<callbacks, bjob, regAt, received>>
    /\ UNCHANGED serviceVars
    /\ UNCHANGED auxVars

\* Resumed after the yield of an update: if updated_job.status in
\* (COMPLETED, FAILED): break
BridgeBreakAfterUpdate(b) ==
    /\ bpc[b] = "sent_update"
    /\ jobs[bjob[b]].status \in Terminal
    /\ BridgeEnd(b)

BridgeNextUpdate(b) ==
    /\ bpc[b] = "sent_update"
    /\ jobs[bjob[b]].status \notin Terminal
    /\ BridgeGoto(b, "waiting")

\* Mutant of BridgeTimeout: the wait times out although an update is in the
\* queue.
BridgeTimeout_QueueIgnored(b) ==
    /\ bpc[b] = "waiting"
    /\ sent[b].keepalives < MaxKeepalives
    /\ Yield(b, KeepaliveEvent)
    /\ bpc' = [bpc EXCEPT ![b] = "sent_keepalive"]
    /\ UNCHANGED <<callbacks, bjob, regAt, received, taken>>
    /\ UNCHANGED serviceVars
    /\ UNCHANGED auxVars

\* asyncio.TimeoutError after 30 s with an empty queue: yield the keepalive.
BridgeTimeout(b) ==
    /\ bpc[b] = "waiting"
    /\ taken[b] = Len(received[b])
    /\ sent[b].keepalives < MaxKeepalives
    /\ Yield(b, KeepaliveEvent)
    /\ bpc' = [bpc EXCEPT ![b] = "sent_keepalive"]
    /\ UNCHANGED <<callbacks, bjob, regAt, received, taken>>
    /\ UNCHANGED serviceVars
    /\ UNCHANGED auxVars

\* Resumed after the keepalive: current_job = get_job(job_id) is terminal:
\* yield it.
BridgeRepollTerminal(b) ==
    /\ bpc[b] = "sent_keepalive"
    /\ jobs[bjob[b]].status \in Terminal
    /\ Yield(b, DataEvent(jobs[bjob[b]]))
    /\ bpc' = [bpc EXCEPT ![b] = "sent_final"]
    /\ UNCHANGED <<callbacks, bjob, regAt, received, taken>>
    /\ UNCHANGED serviceVars
    /\ UNCHANGED auxVars

BridgeRepollActive(b) ==
    /\ bpc[b] = "sent_keepalive"
    /\ jobs[bjob[b]].status \notin Terminal
    /\ BridgeGoto(b, "waiting")

\* Resumed after the yield of the re-polled terminal job: break
BridgeBreakAfterFinal(b) ==
    /\ bpc[b] = "sent_final"
    /\ BridgeEnd(b)

\* Where a generator is suspended.
Suspended ==
    {"sent_initial", "waiting", "sent_update", "sent_keepalive", "sent_final"}

\* The client goes away while the generator is suspended: the generator is
\* closed at that point and only its finally clause runs.  What the client
\* was sent is gone with the client.
BridgeDisconnect(b) ==
    /\ bpc[b] \in Suspended
    /\ UnregisterProgressCallbacks(bjob[b])
    /\ bpc' = [bpc EXCEPT ![b] = "disconnected"]
    /\ DropQueue(b)
    /\ sent' = [sent EXCEPT ![b] = NothingSent]
    /\ UNCHANGED bjob
    /\ UNCHANGED serviceVars
    /\ UNCHANGED auxVars

\* A connection whose queue.get() never times out.
ObserverStep(b) ==
    \/ \E j \in JobIds : BridgeOpen(b, j)
    \/ BridgeReturnAfterInitial(b)
    \/ BridgeEnterLoop(b)
    \/ BridgeGet(b)
    \/ BridgeBreakAfterUpdate(b)
    \/ BridgeNextUpdate(b)
    \/ BridgeDisconnect(b)

BridgeStep(b) ==
    \/ \E j \in JobIds : BridgeOpen(b, j)
    \/ BridgeReturnAfterInitial(b)
    \/ BridgeEnterLoop(b)
    \/ BridgeGet(b)
    \/ BridgeBreakAfterUpdate(b)
    \/ BridgeNextUpdate(b)
    \/ BridgeTimeout(b)
    \/ BridgeRepollTerminal(b)
    \/ BridgeRepollActive(b)
    \/ BridgeBreakAfterFinal(b)
    \/ BridgeDisconnect(b)

\* ----------------------------------------- _notify_progress with bridges
\* The executor thread runs _notify_progress while the event loop registers
\* and unregisters: `job_id in self._progress_callbacks` and
\* `self._progress_callbacks[job_id]` are two reads of the dict.

NotifySites ==
    {"notify_loading", "notify_generating", "notify_frame", "notify_final"}

\* The call sites of _notify_progress, once the `in` test has passed.
IterLabel(site) ==
    CASE site = "notify_loading" -> "iter_loading"
      [] site = "notify_generating" -> "iter_generating"
      [] site = "notify_frame" -> "iter_frame"
      [] site = "notify_final" -> "iter_final"

IterLabels == {IterLabel(site) : site \in NotifySites}

\* Where the executor goes on when _notify_progress returns.
ReturnLabel(label) ==
    CASE label = "iter_loading" -> "load"
      [] label = "iter_generating" -> "sanitize"
      [] label = "iter_frame" -> "loop"
      [] label = "iter_final" -> "release"

\* Where it goes on when _notify_progress raises: the call of the loop is
\* inside the try, the other three are not.
RaiseLabel(label) ==
    IF label = "iter_frame" THEN "set_failed" ELSE "raised"

\* `job_id in self._progress_callbacks` is false: nothing to do.
NotifyNoCallbacks(j) ==
    /\ callbacks[j] = <<>>
    /\ \/ ExecNotifyLoading(j)
       \/ ExecNotifyGenerating(j)
       \/ ExecNotifyFrame(j)
       \/ ExecNotifyFinal(j)

\* `job_id in self._progress_callbacks` is true.
NotifyFound(j) ==
    /\ pc[j] \in NotifySites
    /\ callbacks[j] # <<>>
    /\ pc' = [pc EXCEPT ![j] = IterLabel(pc[j])]
    /\ UNCHANGED <<jobs, currentJob, pipeline, idx, exc, calls, notifyLog,
                   releases, lastResp>>
    /\ UNCHANGED bridgeVars
    /\ UNCHANGED auxVars

\* Mutant of NotifyDeliver: only the first callback of the list is called.
NotifyDeliver_FirstOnly(j) ==
    /\ pc[j] \in IterLabels
    /\ callbacks[j] # <<>>
    /\ notifyLog' = [notifyLog EXCEPT ![j] = Append(@, Snapshot(jobs[j]))]
    /\ received' = [b \in Bridges |->
                        IF b = callbacks[j][1]
                        THEN Append(received[b], Len(notifyLog[j]) + 1)
                        ELSE received[b]]
    /\ idx' = [idx EXCEPT ![j] = IF pc[j] = "iter_frame" THEN @ + 1 ELSE @]
    /\ pc' = [pc EXCEPT ![j] = ReturnLabel(pc[j])]
    /\ UNCHANGED <<jobs, currentJob, pipeline, exc, calls, releases, lastResp>>
    /\ UNCHANGED <<callbacks, bpc, bjob, regAt, taken, sent>>
    /\ UNCHANGED auxVars

\* Mutant of NotifyDeliver: on_progress puts the update at the head of the
\* queue.
NotifyDeliver_PutsFirst(j) ==
    /\ pc[j] \in IterLabels
    /\ callbacks[j] # <<>>
    /\ notifyLog' = [notifyLog EXCEPT ![j] = Append(@, Snapshot(jobs[j]))]
    /\ received' = [b \in Bridges |->
                        IF \E i \in DOMAIN callbacks[j] : callbacks[j][i] = b
                        THEN SubSeq(received[b], 1, taken[b])
                             \o <<Len(notifyLog[j]) + 1>>
                             \o SubSeq(received[b], taken[b] + 1,
                                       Len(received[b]))
                        ELSE received[b]]
    /\ idx' = [idx EXCEPT ![j] = IF pc[j] = "iter_frame" THEN @ + 1 ELSE @]
    /\ pc' = [pc EXCEPT ![j] = ReturnLabel(pc[j])]
    /\ UNCHANGED <<jobs, currentJob, pipeline, exc, calls, releases, lastResp>>
    /\ UNCHANGED <<callbacks, bpc, bjob, regAt, taken, sent>>
    /\ UNCHANGED auxVars

\* for callback in self._progress_callbacks[job_id]: callback(job), the key
\* still being there: every registered on_progress puts the job into its
\* queue, and _notify_progress returns.
NotifyDeliver(j) ==
    /\ pc[j] \in IterLabels
    /\ callbacks[j] # <<>>
    /\ NotifyProgress(j)
    /\ received' = [b \in Bridges |->
                        IF \E i \in DOMAIN callbacks[j] : callbacks[j][i] = b
                        THEN Append(received[b], Len(notifyLog[j]) + 1)
                        ELSE received[b]]
    /\ idx' = [idx EXCEPT ![j] = IF pc[j] = "iter_frame" THEN @ + 1 ELSE @]
    /\ Goto(j, ReturnLabel(pc[j]))
    /\ UNCHANGED <<jobs, currentJob, pipeline, exc, calls, releases, lastResp>>
    /\ UNCHANGED <<callbacks, bpc, bjob, regAt, taken, sent>>
    /\ UNCHANGED auxVars

\* self._progress_callbacks[job_id] after the key was popped on the event
\* loop: KeyError(job_id).
NotifyKeyError(j) ==
    /\ pc[j] \in IterLabels
    /\ callbacks[j] = <<>>
    /\ NotifyProgress(j)
    /\ exc' = [exc EXCEPT ![j] = KeyErrorText(jobs[j].job_id)]
    /\ Goto(j, RaiseLabel(pc[j]))
    /\ UNCHANGED <<jobs, currentJob, pipeline, idx, calls, releases, lastResp>>
    /\ UNCHANGED bridgeVars
    /\ UNCHANGED auxVars

\* What torchaudio.save raises in the runs with one bridge.
BridgeMsgs == {"io error"}

\* The executor next to the bridges: the steps of _generate_with_progress,
\* _notify_progress taken in its two reads.  The collaborators return and the
\* model never signals end-of-sequence.
BridgeExecStep(j) ==
    \/ ExecSetLoading(j)
    \/ ExecLoadOk(j)
    \/ ExecSetGenerating(j)
    \/ ExecSanitizeOk(j)
    \/ ExecPreprocessOk(j)
    \/ ExecSetTotalFrames(j)
    \/ ExecSeedOk(j)
    \/ ExecFrameOk(j)
    \/ ExecLoopExit(j)
    \/ ExecSetCurrentFrame(j)
    \/ ExecSetProgress(j)
    \/ ExecDecodeOk(j)
    \/ ExecSaveOk(j)
    \/ ExecSetOutputPath(j)
    \/ ExecSetCompleted(j)
    \/ ExecSetProgressOne(j)
    \/ ExecSetFailed(j)
    \/ ExecSetError(j)
    \/ ExecRelease(j)
    \/ NotifyNoCallbacks(j)
    \/ NotifyFound(j)
    \/ NotifyDeliver(j)
    \/ NotifyKeyError(j)

\* One job of BridgeFrames frames and one connection that watches it, with
\* the timeouts of its queue.get(); torchaudio.save may raise.
BridgeNext ==
    \/ (jobs = <<>> /\ PostStartAccept(FrameMs * BridgeFrames))
    \/ \E j \in JobIds : StartTaskAcquire(j)
    \/ \E j \in JobIds : BridgeExecStep(j)
    \/ \E j \in JobIds, msg \in BridgeMsgs : ExecSaveRaise(j, msg)
    \/ BridgeStep(1)

BridgeSpec == Init /\ [][BridgeNext]_vars

\* One job of BridgeFrames frames and up to MaxBridges connections that
\* watch it, the updates coming faster than the timeout.
ObserversNext ==
    \/ (jobs = <<>> /\ PostStartAccept(FrameMs * BridgeFrames))
    \/ \E j \in JobIds : StartTaskAcquire(j)
    \/ \E j \in JobIds : BridgeExecStep(j)
    \/ \E b \in Bridges : ObserverStep(b)

ObserversSpec == Init /\ [][ObserversNext]_vars

\* ---------------------------------------------------------- GET handlers
\* The ids a client may ask for: those of the registry and one that no job
\* ever gets.
AskedIds == 1..(MaxJobs + 1)

\* PipelineService.get_job(job_id) is None: self._jobs.get(job_id) finds no
\* such key.
JobIsNone(job_id) == job_id \notin Created

Reply(handler, code, job_id, body) ==
    /\ reply' = [handler |-> handler, code |-> code, job |-> job_id,
                 body |-> body]
    /\ UNCHANGED <<loaderVars, downloadVars, llmVars>>
    /\ UNCHANGED serviceVars
    /\ UNCHANGED bridgeVars

\* Mutant of GetJobStatusNotFound: the lookup inserts a default Job for the
\* id it does not find.
GetJobStatusNotFound_Creates(job_id) ==
    /\ JobIsNone(job_id)
    /\ job_id = Len(jobs) + 1
    /\ job_id \in JobIds
    /\ jobs' = Append(jobs, GenerationJob(job_id, FrameMs * BridgeFrames))
    /\ reply' = [handler |-> "status", code |-> 404, job |-> job_id,
                 body |-> <<>>]
    /\ UNCHANGED <<currentJob, pipeline, pc, idx, exc, calls, notifyLog,
                   releases, lastResp>>
    /\ UNCHANGED <<loaderVars, downloadVars, llmVars>>
    /\ UNCHANGED bridgeVars

\* GET /status/{job_id}, job is None: HTTP 404
GetJobStatusNotFound(job_id) ==
    /\ JobIsNone(job_id)
    /\ Reply("status", 404, job_id, <<>>)

\* Mutant of GetJobStatusFound: a finished job is dropped from the registry
\* once its status has been read.
GetJobStatusFound_Evicts(job_id) ==
    /\ ~JobIsNone(job_id)
    /\ reply' = [handler |-> "status", code |-> 200, job |-> job_id,
                 body |-> JobToDict(jobs[job_id])]
    /\ jobs' = IF job_id = Len(jobs) /\ pc[job_id] = "done"
               THEN SubSeq(jobs, 1, Len(jobs) - 1)
               ELSE jobs
    /\ UNCHANGED <<currentJob, pipeline, pc, idx, exc, calls, notifyLog,
                   releases, lastResp>>
    /\ UNCHANGED <<loaderVars, downloadVars, llmVars>>
    /\ UNCHANGED bridgeVars

\* GET /status/{job_id}: the JobStatusResponse of the job as it is now
GetJobStatusFound(job_id) ==
    /\ ~JobIsNone(job_id)
    /\ Reply("status", 200, job_id, JobToDict(jobs[job_id]))

\* GET /progress/{job_id}, job is None: HTTP 404, no generator is made
StreamProgressNotFound(job_id) ==
    /\ JobIsNone(job_id)
    /\ Reply("progress", 404, job_id, <<>>)

\* GET /download/{job_id}, job is None: HTTP 404
GetDownloadInfoNotFound(job_id) ==
    /\ JobIsNone(job_id)
    /\ Reply("download", 404, job_id, <<>>)

\* GET /download/{job_id}, job.status != COMPLETED: HTTP 400
GetDownloadInfoNotCompleted(job_id) ==
    /\ ~JobIsNone(job_id)
    /\ jobs[job_id].status # COMPLETED
    /\ Reply("download", 400, job_id, <<>>)

\* GET /download/{job_id}, job.output_path is None: HTTP 500
GetDownloadInfoNoPath(job_id) ==
    /\ ~JobIsNone(job_id)
    /\ jobs[job_id].status = COMPLETED
    /\ jobs[job_id].output_path = NoPath
    /\ Reply("download", 500, job_id, <<>>)

\* Mutant of GetDownloadInfoOk: the location is handed out as soon as it is
\* set, whatever the status.
GetDownloadInfoOk_AnyStatus(job_id) ==
    /\ ~JobIsNone(job_id)
    /\ jobs[job_id].output_path # NoPath
    /\ Reply("download", 200, job_id, jobs[job_id].output_path)

\* GET /download/{job_id}: "download_url": job.output_path
GetDownloadInfoOk(job_id) ==
    /\ ~JobIsNone(job_id)
    /\ jobs[job_id].status = COMPLETED
    /\ jobs[job_id].output_path # NoPath
    /\ Reply("download", 200, job_id, jobs[job_id].output_path)

GetStep(job_id) ==
    \/ GetJobStatusNotFound(job_id)
    \/ GetJobStatusFound(job_id)
    \/ StreamProgressNotFound(job_id)
    \/ GetDownloadInfoNotFound(job_id)
    \/ GetDownloadInfoNotCompleted(job_id)
    \/ GetDownloadInfoOk(job_id)

\* The executor with no bridge connected: the collaborators return, the
\* model may signal end-of-sequence, torchaudio.save may raise.
QueryExecStep(j) ==
    \/ ScenarioExecStep(j)
    \/ ExecLoadSkip(j)
    \/ \E msg \in BridgeMsgs : ExecSaveRaise(j, msg)
    \/ ExecSetFailed(j)
    \/ ExecSetError(j)

\* Jobs of BridgeFrames frames, one after the other, and clients that ask
\* for status and download.
QueryNext ==
    \/ PostStartAccept(FrameMs * BridgeFrames)
    \/ \E j \in JobIds : StartTaskAcquire(j)
    \/ \E j \in JobIds : StartTaskReject(j)
    \/ \E j \in JobIds : QueryExecStep(j)
    \/ \E job_id \in AskedIds : GetStep(job_id)

QuerySpec == Init /\ [][QueryNext]_vars

\* ------------------------------------------------- request validation
\* The bodies of POST /start: for each numeric field the two ends of its
\* range and the values just outside (floats in hundredths), with the
\* required texts present or not.
Bodies ==
    [temperature : {9, 10, 200, 201},
     topk : {0, 1, 200, 201},
     cfg_scale : {99, 100, 300, 301},
     max_audio_length_ms : {59999, 60000, 480000, 480001},
     texts : BOOLEAN]

\* How many fields of a body GenerationRequest refuses.
Violations(req) ==
    (IF req.texts THEN 0 ELSE 1)
    + (IF req.temperature \in 10..200 THEN 0 ELSE 1)
    + (IF req.topk \in 1..200 THEN 0 ELSE 1)
    + (IF req.cfg_scale \in 100..300 THEN 0 ELSE 1)
    + (IF req.max_audio_length_ms \in 60000..480000 THEN 0 ELSE 1)

\* The bodies that are tried: those with at most one field wrong.
Requests == {req \in Bodies : Violations(req) <= 1}

\* Mutant of Valid: only the lower ends of the ranges are enforced.
Valid_LowerOnly(req) ==
    /\ req.texts
    /\ req.temperature >= 10
    /\ req.topk >= 1
    /\ req.cfg_scale >= 100
    /\ req.max_audio_length_ms >= 60000

\* GenerationRequest: lyrics and tags required, temperature ge=0.1 le=2.0,
\* topk ge=1 le=200, cfg_scale ge=1.0 le=3.0, max_audio_length_ms ge=60000
\* le=480000.
Valid(req) ==
    /\ req.texts
    /\ req.temperature >= 10 /\ req.temperature <= 200
    /\ req.topk >= 1 /\ req.topk <= 200
    /\ req.cfg_scale >= 100 /\ req.cfg_scale <= 300
    /\ req.max_audio_length_ms >= 60000 /\ req.max_audio_length_ms <= 480000

\* create_job(lyrics, tags, temperature, topk, cfg_scale, max_audio_length_ms)
CreateJob(job_id, req) ==
    [GenerationJob(job_id, req.max_audio_length_ms)
        EXCEPT !.temperature = req.temperature,
               !.topk = req.topk,
               !.cfg_scale = req.cfg_scale]

\* POST /start with a body that GenerationRequest refuses: HTTP 422, the
\* handler is not entered.
PostStartInvalid(req) ==
    /\ ~Valid(req)
    /\ lastResp' = [code |-> 422, job |-> NoJob]
    /\ UNCHANGED <<jobs, currentJob, pipeline, pc, idx, exc, calls,
                   notifyLog, releases>>
    /\ UNCHANGED bridgeVars
    /\ UNCHANGED auxVars

\* POST /start with a body that GenerationRequest accepts, gate free.
PostStartValid(req) ==
    /\ Valid(req)
    /\ currentJob = NoJob
    /\ Len(jobs) < MaxJobs
    /\ LET job_id == Len(jobs) + 1 IN
        /\ jobs' = Append(jobs, CreateJob(job_id, req))
        /\ pc' = [pc EXCEPT ![job_id] = "pending"]
        /\ lastResp' = [code |-> 200, job |-> job_id]
    /\ UNCHANGED <<currentJob, pipeline, idx, exc, calls, notifyLog, releases>>
    /\ UNCHANGED bridgeVars
    /\ UNCHANGED auxVars

\* The requests and the background tasks they add; no executor step is
\* taken.
ValidationNext ==
    \/ \E req \in Requests : PostStartInvalid(req)
    \/ \E req \in Requests : PostStartValid(req)
    \/ PostStartBusy
    \/ \E j \in JobIds : StartTaskAcquire(j)
    \/ \E j \in JobIds : StartTaskReject(j)

ValidationSpec == Init /\ [][ValidationNext]_vars

\* ------------------------------------------------------- load_pipeline
\* PipelineService.load_pipeline, statement by statement, called by the
\* threads of Threads in any interleaving.

LoaderRest == <<jobs, currentJob, pc, idx, exc, calls, notifyLog, releases,
                lastResp, reply, downloadVars, llmVars>>

\* A thread calls load_pipeline and reaches `with self._lock:`.
LoadCall(t) ==
    /\ lpc[t] = "idle"
    /\ loadCalls[t] < MaxLoadCalls
    /\ loadCalls' = [loadCalls EXCEPT ![t] = @ + 1]
    /\ lpc' = [lpc EXCEPT ![t] = "acquire"]
    /\ UNCHANGED <<lock, built, loadResult, pipeline>>
    /\ UNCHANGED LoaderRest
    /\ UNCHANGED bridgeVars

\* Mutant of LoadAcquire: the body is entered whether or not the lock is
\* free.
LoadAcquire_NoLock(t) ==
    /\ lpc[t] = "acquire"
    /\ lock' = t
    /\ lpc' = [lpc EXCEPT ![t] = "check"]
    /\ UNCHANGED <<built, loadCalls, loadResult, pipeline>>
    /\ UNCHANGED LoaderRest
    /\ UNCHANGED bridgeVars

\* `with self._lock:` acquires the lock once it is free.
LoadAcquire(t) ==
    /\ lpc[t] = "acquire"
    /\ lock = 0
    /\ lock' = t
    /\ lpc' = [lpc EXCEPT ![t] = "check"]
    /\ UNCHANGED <<built, loadCalls, loadResult, pipeline>>
    /\ UNCHANGED LoaderRest
    /\ UNCHANGED bridgeVars

\* `if self._pipeline is not None: return`.
LoadAlreadyLoaded(t) ==
    /\ lpc[t] = "check"
    /\ pipeline
    /\ lpc' = [lpc EXCEPT ![t] = "release"]
    /\ loadResult' = [loadResult EXCEPT ![t] = "skipped"]
    /\ UNCHANGED <<lock, built, loadCalls, pipeline>>
    /\ UNCHANGED LoaderRest
    /\ UNCHANGED bridgeVars

\* The pipeline is None: the try block is entered and from_pretrained is
\* called.
LoadFromPretrained(t) ==
    /\ lpc[t] = "check"
    /\ ~pipeline
    /\ lpc' = [lpc EXCEPT ![t] = "from_pretrained"]
    /\ UNCHANGED <<lock, built, loadCalls, loadResult, pipeline>>
    /\ UNCHANGED LoaderRest
    /\ UNCHANGED bridgeVars

\* from_pretrained returns; its result is assigned to self._pipeline.
LoadAssign(t) ==
    /\ lpc[t] = "from_pretrained"
    /\ pipeline' = TRUE
    /\ built' = built + 1
    /\ lpc' = [lpc EXCEPT ![t] = "release"]
    /\ loadResult' = [loadResult EXCEPT ![t] = "loaded"]
    /\ UNCHANGED <<lock, loadCalls>>
    /\ UNCHANGED LoaderRest
    /\ UNCHANGED bridgeVars

\* The import or from_pretrained raises: logged and raised again, nothing
\* assigned to self._pipeline.
LoadReraise(t) ==
    /\ lpc[t] = "from_pretrained"
    /\ lpc' = [lpc EXCEPT ![t] = "release"]
    /\ loadResult' = [loadResult EXCEPT ![t] = "failed"]
    /\ UNCHANGED <<lock, built, loadCalls, pipeline>>
    /\ UNCHANGED LoaderRest
    /\ UNCHANGED bridgeVars

\* The with statement is left, by return or by the exception: the lock is
\* released.
LoadRelease(t) ==
    /\ lpc[t] = "release"
    /\ lock' = 0
    /\ lpc' = [lpc EXCEPT ![t] = "idle"]
    /\ UNCHANGED <<built, loadCalls, loadResult, pipeline>>
    /\ UNCHANGED LoaderRest
    /\ UNCHANGED bridgeVars

LoadStep(t) ==
    \/ LoadCall(t)
    \/ LoadAcquire(t)
    \/ LoadAlreadyLoaded(t)
    \/ LoadFromPretrained(t)
    \/ LoadAssign(t)
    \/ LoadReraise(t)
    \/ LoadRelease(t)

LoaderNext == \E t \in Threads : LoadStep(t)

LoaderSpec == Init /\ [][LoaderNext]_vars

\* is_loaded
IsLoaded == pipeline

\* ------------------------------------------------------ model download
\* routers/models.py: POST /download and the background task
\* download_all_models.  Handler and tasks run on the event loop; a task is
\* suspended only in `await download_model_async(...)`.

DownloadRest == <<serviceVars, bridgeVars, reply, loaderVars, llmVars>>

\* check_model_exists(model["subdir"]) fails for some required model
Missing ==
    {i \in DOMAIN REQUIRED_MODELS : REQUIRED_MODELS[i].name \notin present}

\* models_to_download: the missing models from the i-th on, one per repo
\* not in downloaded_repos
RECURSIVE ModelsToDownload(_, _)
ModelsToDownload(i, downloaded_repos) ==
    IF i > Len(REQUIRED_MODELS) THEN <<>>
    ELSE LET model == REQUIRED_MODELS[i] IN
         IF model.name \in present \/ model.repo \in downloaded_repos
         THEN ModelsToDownload(i + 1, downloaded_repos)
         ELSE <<model>> \o
              ModelsToDownload(i + 1, downloaded_repos \cup {model.repo})

\* int((i / total) * 100), i counted from 0
Percent(i, total) == (i * 100) \div total

\* The statements after the loop of download_all_models.
Finished(status) ==
    [status EXCEPT !.is_downloading = FALSE,
                   !.current_model = None,
                   !.progress = IF status.error = None THEN 100 ELSE 0]

\* What a download that succeeded leaves on disk: the paths of the required
\* models of that repo.
Downloaded(repo) ==
    {REQUIRED_MODELS[i].name : i \in {k \in DOMAIN REQUIRED_MODELS :
                                          REQUIRED_MODELS[k].repo = repo}}

\* POST /download while is_downloading: HTTP 409.
PostDownloadBusy ==
    /\ downloadStatus.is_downloading
    /\ dlResp' = [code |-> 409, status |-> "none"]
    /\ UNCHANGED <<downloadStatus, present, dtask>>
    /\ UNCHANGED DownloadRest

\* POST /download, nothing is missing: "complete".
PostDownloadComplete ==
    /\ ~downloadStatus.is_downloading
    /\ Missing = {}
    /\ dlResp' = [code |-> 200, status |-> "complete"]
    /\ UNCHANGED <<downloadStatus, present, dtask>>
    /\ UNCHANGED DownloadRest

\* POST /download, some model is missing: the background task is added and
\* the answer is "started".  _download_status is not touched here.
PostDownloadStart(r) ==
    /\ ~downloadStatus.is_downloading
    /\ Missing # {}
    /\ dtask[r].at = "none"
    /\ \A q \in Downloads : q < r => dtask[q].at # "none"
    /\ dtask' = [dtask EXCEPT ![r].at = "added"]
    /\ dlResp' = [code |-> 200, status |-> "started"]
    /\ UNCHANGED <<downloadStatus, present>>
    /\ UNCHANGED DownloadRest

\* download_all_models up to its first await: is_downloading = True,
\* error = None, models_to_download; with nothing to download it runs to its
\* end at once.
DownloadAllModelsBegin(r) ==
    /\ dtask[r].at = "added"
    /\ LET todo == ModelsToDownload(1, {})
           begun == [downloadStatus EXCEPT !.is_downloading = TRUE,
                                           !.error = None]
       IN IF todo = <<>>
          THEN /\ downloadStatus' = Finished(begun)
               /\ dtask' = [dtask EXCEPT ![r] =
                                [at |-> "done", todo |-> <<>>, i |-> 0]]
          ELSE /\ downloadStatus' =
                      [begun EXCEPT !.current_model = todo[1].name,
                                    !.progress = Percent(0, Len(todo))]
               /\ dtask' = [dtask EXCEPT ![r] =
                                [at |-> "awaiting", todo |-> todo, i |-> 1]]
    /\ UNCHANGED <<present, dlResp>>
    /\ UNCHANGED DownloadRest

\* download_model_async returns True: the next model, or the end of the
\* loop and the statements after it.
DownloadModelOk(r) ==
    /\ dtask[r].at = "awaiting"
    /\ LET todo == dtask[r].todo
           i == dtask[r].i
       IN /\ present' = present \cup Downloaded(todo[i].repo)
          /\ IF i < Len(todo)
             THEN /\ downloadStatus' =
                         [downloadStatus EXCEPT
                              !.current_model = todo[i + 1].name,
                              !.progress = Percent(i, Len(todo))]
                  /\ dtask' = [dtask EXCEPT ![r].i = i + 1]
             ELSE /\ downloadStatus' = Finished(downloadStatus)
                  /\ dtask' = [dtask EXCEPT ![r] =
                                   [at |-> "done", todo |-> <<>>, i |-> 0]]
    /\ UNCHANGED dlResp
    /\ UNCHANGED DownloadRest

\* download_model_async returns False: error is set, break, and the
\* statements after the loop.
DownloadModelFailed(r) ==
    /\ dtask[r].at = "awaiting"
    /\ downloadStatus' =
           Finished([downloadStatus EXCEPT
                         !.error = <<"Failed to download ",
                                     dtask[r].todo[dtask[r].i].name>>])
    /\ dtask' = [dtask EXCEPT ![r] = [at |-> "done", todo |-> <<>>, i |-> 0]]
    /\ UNCHANGED <<present, dlResp>>
    /\ UNCHANGED DownloadRest

DownloadNext ==
    \/ PostDownloadBusy
    \/ PostDownloadComplete
    \/ \E r \in Downloads : PostDownloadStart(r)
    \/ \E r \in Downloads : DownloadAllModelsBegin(r)
    \/ \E r \in Downloads : DownloadModelOk(r)
    \/ \E r \in Downloads : DownloadModelFailed(r)

DownloadSpec == Init /\ [][DownloadNext]_vars

\* --------------------------------------------------------- LLM settings
\* routers/app_settings.py: PUT /llm.  The handler has no await: it runs in
\* one piece on the event loop.

LlmRest == <<serviceVars, bridgeVars, reply, loaderVars, downloadVars>>

\* The bodies tried: UpdateLLMSettingsRequest(provider, model, api_key)
RequestProviders ==
    {None, "openai", "anthropic", "ollama", "unknown-provider"}
RequestModels ==
    {None, "gpt-4o", "gpt-4o-mini", "claude-sonnet-4-20250514", "llama3.2",
     "unknown-model"}
RequestKeys == {None, "", "sk-1"}
LlmRequests ==
    [provider : RequestProviders, model : RequestModels,
     api_key : RequestKeys]

\* `request.provider not in PROVIDERS`: HTTP 400, nothing written yet.
UpdateLlmUnknownProvider(request) ==
    /\ request.provider # None
    /\ request.provider \notin DOMAIN PROVIDERS
    /\ putResp' = [code |-> 400]
    /\ UNCHANGED <<runtimeSettings, llmService>>
    /\ UNCHANGED LlmRest

\* _runtime_settings after the `if request.provider:` block
WithProvider(settings, request) ==
    IF request.provider = None THEN settings
    ELSE [settings EXCEPT
              !.provider = request.provider,
              !.model = IF request.model = None
                        THEN PROVIDERS[request.provider].default_model
                        ELSE @]

\* request.provider or _runtime_settings["provider"]
ProviderOf(settings, request) ==
    IF request.provider # None THEN request.provider ELSE settings.provider

\* `request.model not in PROVIDERS[provider].models`: HTTP 400, after the
\* provider block has run.
UpdateLlmUnknownModel(request) ==
    /\ request.provider = None \/ request.provider \in DOMAIN PROVIDERS
    /\ request.model # None
    /\ LET settings == WithProvider(runtimeSettings, request) IN
          /\ request.model \notin
                 PROVIDERS[ProviderOf(settings, request)].models
          /\ runtimeSettings' = settings
    /\ putResp' = [code |-> 400]
    /\ UNCHANGED llmService
    /\ UNCHANGED LlmRest

\* llm_service.update_settings(provider, model, api_key)
UpdateSettings(service, provider, model, api_key) ==
    [service EXCEPT
         !.provider_name = provider,
         !.model = model,
         !.api_keys = IF api_key # "" THEN [@ EXCEPT ![provider] = api_key]
                      ELSE @]

\* Both checks pass: provider, model and api key are written and the
\* answer is {"status": "ok"}.
UpdateLlmOk(request) ==
    /\ request.provider = None \/ request.provider \in DOMAIN PROVIDERS
    /\ LET withProvider == WithProvider(runtimeSettings, request)
           provider == ProviderOf(withProvider, request)
           withModel == IF request.model = None THEN withProvider
                        ELSE [withProvider EXCEPT !.model = request.model]
       IN /\ request.model # None =>
                 request.model \in PROVIDERS[provider].models
          /\ IF request.api_key = None
             THEN /\ runtimeSettings' = withModel
                  /\ UNCHANGED llmService
             ELSE /\ runtimeSettings' =
                         [withModel EXCEPT
                              !.api_keys[provider] = request.api_key]
                  /\ llmService' =
                         UpdateSettings(llmService, provider,
                                        withModel.model, request.api_key)
    /\ putResp' = [code |-> 200]
    /\ UNCHANGED LlmRest

LlmNext ==
    \E request \in LlmRequests :
        \/ UpdateLlmUnknownProvider(request)
        \/ UpdateLlmUnknownModel(request)
        \/ UpdateLlmOk(request)

LlmSpec == Init /\ [][LlmNext]_vars

\* ------------------------------------------------------------ vocabulary

\* Where the pc of a dispatched executor that has not ended can stand.
ExecLabels ==
    {"set_loading", "notify_loading", "load", "set_generating",
     "notify_generating", "sanitize", "preprocess", "set_total", "seed",
     "loop", "set_frame", "set_progress", "notify_frame", "decode", "save",
     "set_output", "set_completed", "set_progress_one", "set_failed",
     "set_error", "notify_final", "release",
     "iter_loading", "iter_generating", "iter_frame", "iter_final"}

\* _generate_with_progress(job j) is running on its thread.
Running(j) == pc[j] \in ExecLabels

\* The executor of j has ended: it returned, or an exception left it.
Exited(j) == pc[j] \in {"done", "raised"}

\* The executor of j has entered its try statement.
InTry(j) == calls[j]["sanitize"] >= 1

\* The collaborator steps the code calls once per execution.
OneShot == {"load", "sanitize", "preprocess", "seed", "decode", "save"}

FracEq(a, b) == a[1] * b[2] = b[1] * a[2]

LastNotified(j) == notifyLog[j][Len(notifyLog[j])]

\* ------------------------------------------------------------------- C1
\* C1: for any interleaving of POST /start handlers and start_generation
\* tasks, two acquisitions never both succeed: at no time are two jobs in
\* LOADING or GENERATING, and at no time do two executors run.
C1_SingleFlight ==
    /\ Cardinality({j \in Created : jobs[j].status \in Active}) <= 1
    /\ Cardinality({j \in JobIds : Running(j)}) <= 1
    /\ \A j \in JobIds : Running(j) => currentJob = j

\* Two attempts met: one job is in an active phase and the start of another
\* was refused.
C1_Witness ==
    \E a, b \in Created :
        /\ a # b
        /\ jobs[a].status \in Active
        /\ pc[b] = "rejected"

\* ------------------------------------------------------------------- C2
\* C2: at most one creation attempt succeeds while a job is active, and
\* every other attempt made before the gate is released receives HTTP 429.
\* A Job is in the registry only if its request was answered 200, so: no
\* request that was answered 200 is refused the gate by a job that holds it.
C2_OthersReceive429 ==
    \A j \in JobIds : pc[j] # "rejected"

\* ------------------------------------------------------------------- C3
\* C3: work refused by the gate leaves no Job behind: the registry never
\* holds a Job that stays QUEUED because the occupied gate refused its start.
C3_NoDanglingQueued ==
    \A j \in Created : ~(pc[j] = "rejected" /\ jobs[j].status = QUEUED)

\* ------------------------------------------------------------------- C4
\* C4: when load_pipeline raises, the job ends FAILED (QUEUED -> LOADING ->
\* FAILED) with its error populated and no output location, the failure is
\* notified to the observers, and the gate is released.
C4_WarmUpFailureFails ==
    \A j \in Created :
        (exc[j] # NoExc /\ ~InTry(j) /\ Exited(j)) =>
            /\ jobs[j].status = FAILED
            /\ jobs[j].error = exc[j]
            /\ jobs[j].output_path = NoPath
            /\ Len(notifyLog[j]) > 0
            /\ LastNotified(j).status = FAILED
            /\ currentJob # j

\* ------------------------------------------------------------------- C5
\* C5: an error raised by any step inside the try (parameter resolution,
\* preprocessing, the seed frame, the loop, decode, save) is captured in the
\* executor: control is in the except clause or behind the try, never back
\* at a step (no retry) and never out of the executor; the job becomes
\* FAILED with error = str(e); no step is called more often than the code
\* calls it.
C5_GenerationErrorsCaptured ==
    \A j \in Created :
        /\ \A s \in OneShot : calls[j][s] <= 1
        /\ calls[j]["frame"] <= MaxAudioFrames(jobs[j].max_audio_length_ms)
        /\ (exc[j] # NoExc /\ InTry(j)) =>
                pc[j] \in {"set_failed", "set_error", "notify_final", "release"}
        /\ (exc[j] # NoExc /\ pc[j] \in {"notify_final", "release"}) =>
                /\ jobs[j].status = FAILED
                /\ jobs[j].error = exc[j]
        /\ pc[j] = "raised" => ~InTry(j)
        /\ (pc[j] = "done" /\ jobs[j].status = FAILED) => jobs[j].error \in Msgs

\* An error raised in the loop, after a frame was produced, has been
\* captured and the executor is about to return.
C5_Witness ==
    \E j \in Created :
        /\ pc[j] = "release"
        /\ exc[j] \in Msgs
        /\ jobs[j].current_frame >= 1
        /\ jobs[j].status = FAILED
        /\ jobs[j].error = exc[j]

\* ------------------------------------------------------------------- C6
\* C6: on every path on which the job becomes COMPLETED or FAILED the
\* executor releases the gate exactly once, and only after the status is
\* terminal and the terminal state has been notified; while a terminal
\* state is still being published the gate is held, so no job is admitted.
C6_ReleaseAfterPublish ==
    \A j \in Created :
        /\ releases[j] <= 1
        /\ (releases[j] = 1) <=> (pc[j] = "done")
        /\ pc[j] = "done" =>
            /\ jobs[j].status \in Terminal
            /\ Len(notifyLog[j]) > 0
            /\ LastNotified(j) = Snapshot(jobs[j])
        /\ (jobs[j].status \in Terminal /\ pc[j] # "done") =>
            /\ currentJob = j
            /\ \A k \in JobIds \ {j} : ~Running(k)
        /\ (jobs[j].status \in Terminal /\ ~Running(j)) => pc[j] = "done"

\* Both terminal paths were taken and each released the gate: one job ended
\* COMPLETED, a later one FAILED.
C6_Witness ==
    \E a, b \in Created :
        /\ pc[a] = "done" /\ jobs[a].status = COMPLETED /\ releases[a] = 1
        /\ pc[b] = "done" /\ jobs[b].status = FAILED /\ releases[b] = 1

\* ------------------------------------------------------------------- C7
\* C7: every collaborator call returning or raising, every admitted job
\* ends COMPLETED or FAILED and the gate is released, also after a failure:
\* an executor that has ended leaves its job terminal and the gate not held
\* by it.
C7_EndsTerminalAndReleased ==
    \A j \in Created :
        Exited(j) => (jobs[j].status \in Terminal /\ currentJob # j)

\* ------------------------------------------------------------------- C8
\* C8: a job's status only moves QUEUED -> LOADING -> GENERATING ->
\* {COMPLETED | FAILED}: never backwards, never past a phase, and a job in
\* COMPLETED or FAILED never changes status again.
StatusMoves ==
    {<<QUEUED, LOADING>>, <<LOADING, GENERATING>>,
     <<GENERATING, COMPLETED>>, <<GENERATING, FAILED>>}

C8_StatusLinear ==
    [][\A j \in Created :
          jobs'[j].status # jobs[j].status =>
              <<jobs[j].status, jobs'[j].status>> \in StatusMoves]_vars

\* A job went all the way to a terminal status and its executor returned.
C8_Witness ==
    \E j \in Created : pc[j] = "done" /\ jobs[j].status \in Terminal

\* ------------------------------------------------------------------- C9
\* C9: progress is exactly 0 while the status is QUEUED or LOADING and
\* exactly 1.0 whenever the status is COMPLETED, also when the loop ended
\* early on end-of-sequence.
C9_ProgressByStatus ==
    \A j \in Created :
        /\ jobs[j].status \in {QUEUED, LOADING} =>
                FracEq(jobs[j].progress, Frac(0, 1))
        /\ jobs[j].status = COMPLETED =>
                FracEq(jobs[j].progress, Frac(1, 1))

\* ------------------------------------------------------------------ C10
\* C10: in every reachable state a job whose status is terminal has exactly
\* one of output_path and error set, and a job whose status is not terminal
\* has neither.
C10_ExactlyOneResult ==
    \A j \in Created :
        /\ jobs[j].status \in Terminal =>
                ((jobs[j].output_path # NoPath) # (jobs[j].error # NoError))
        /\ jobs[j].status \notin Terminal =>
                (jobs[j].output_path = NoPath /\ jobs[j].error = NoError)

\* ------------------------------------------------------------------ C11
\* C11: a job in FAILED never has an output location: at every failure
\* point, a failure while saving included, output_path is unset when the
\* exception is raised, when the status becomes FAILED and ever after.
C11_FailedHasNoOutput ==
    \A j \in Created :
        (jobs[j].status = FAILED \/ exc[j] # NoExc) =>
            jobs[j].output_path = NoPath

\* torchaudio.save raised and the job went FAILED.
C11_Witness ==
    \E j \in Created :
        /\ calls[j]["save"] = 1
        /\ exc[j] \in Msgs
        /\ jobs[j].status = FAILED
        /\ pc[j] = "release"

\* ------------------------------------------------------------------ C12
\* C12: total_frames is set once, to max_audio_length_ms // 80, and never
\* changes afterwards; current_frame <= total_frames in every state.
C12_TotalFramesSetOnce ==
    /\ [](\A j \in Created :
            /\ jobs[j].total_frames \in
                   {0, MaxAudioFrames(jobs[j].max_audio_length_ms)}
            /\ jobs[j].current_frame <= jobs[j].total_frames)
    /\ [][\A j \in Created :
            jobs'[j].total_frames # jobs[j].total_frames =>
                /\ jobs[j].total_frames = 0
                /\ jobs[j].current_frame = 0
                /\ calls[j]["seed"] = 0
                /\ jobs'[j].total_frames =
                       MaxAudioFrames(jobs[j].max_audio_length_ms)]_vars

\* The whole budget of a request that is no multiple of the frame length
\* was produced: current_frame has reached total_frames.
C12_Witness ==
    \E j \in Created :
        /\ jobs[j].max_audio_length_ms % FrameMs # 0
        /\ jobs[j].total_frames >= 1
        /\ jobs[j].current_frame = jobs[j].total_frames
        /\ pc[j] = "done"

\* ------------------------------------------------------------------ C13
\* C13: when the collaborator signals end-of-sequence after k frames were
\* kept (k <= total_frames), this is no error: decode and save returning,
\* the job ends COMPLETED with total_frames = max_audio_length_ms // 80,
\* current_frame = k and progress = 1.0.  With 80000 ms and end-of-sequence
\* at unit 500: total_frames = 1000, current_frame = 500.
AfterLoop ==
    {"decode", "save", "set_output", "set_completed", "set_progress_one",
     "notify_final", "release"}

C13_EosCompletes ==
    \A j \in Created :
        /\ exc[j] = NoExc
        /\ jobs[j].status # FAILED
        /\ pc[j] \in AfterLoop =>
            /\ jobs[j].current_frame = idx[j]
            /\ idx[j] <= jobs[j].total_frames
            /\ jobs[j].total_frames =
                   MaxAudioFrames(jobs[j].max_audio_length_ms)
        /\ pc[j] \in {"notify_final", "release", "done"} =>
            /\ jobs[j].status = COMPLETED
            /\ FracEq(jobs[j].progress, Frac(1, 1))
            /\ jobs[j].total_frames =
                   MaxAudioFrames(jobs[j].max_audio_length_ms)
            /\ jobs[j].current_frame <= jobs[j].total_frames

\* The scenario of the specification: 80000 ms, end-of-sequence signalled by
\* the call that follows 500 kept frames.
C13_Witness ==
    \E j \in Created :
        /\ jobs[j].max_audio_length_ms = 80000
        /\ pc[j] = "release"
        /\ calls[j]["frame"] = 501
        /\ jobs[j].total_frames = 1000
        /\ jobs[j].current_frame = 500
        /\ jobs[j].status = COMPLETED
        /\ jobs[j].progress = Frac(1, 1)

\* ---------------------------------------------------- bridge vocabulary

\* The generator of b is suspended at a yield or at its queue.get().
Open(b) == bpc[b] \in Suspended

\* on_progress of b is in the callback list of its job.
Registered(b) ==
    /\ bjob[b] # NoJob
    /\ \E i \in DOMAIN callbacks[bjob[b]] : callbacks[bjob[b]][i] = b

\* The notifications a + 1, ..., b in the order they were issued.
Upto(a, b) == [i \in 1..(b - a) |-> a + i]

\* ------------------------------------------------------------------ C14
\* C14: while two or more observers are registered for the same job, every
\* notification the executor issues is put into the queue of each of them,
\* in the order of issue: each registered observer holds exactly the
\* notifications issued since it registered, and of two registered
\* observers the later one holds a suffix of what the earlier one holds.
C14_AllObserversReceiveAll ==
    /\ \A b \in Bridges :
          Registered(b) =>
              received[b] = Upto(regAt[b], Len(notifyLog[bjob[b]]))
    /\ \A a, b \in Bridges :
          (Registered(a) /\ Registered(b) /\ bjob[a] = bjob[b]
              /\ regAt[a] <= regAt[b]) =>
              received[b] = SubSeq(received[a], regAt[b] - regAt[a] + 1,
                                   Len(received[a]))

\* Two observers registered before the first notification, and three
\* notifications were issued: both hold all three in the same order.
C14_Witness ==
    \E a, b \in Bridges :
        /\ a # b
        /\ Registered(a) /\ Registered(b) /\ bjob[a] = bjob[b]
        /\ Len(notifyLog[bjob[a]]) = 3
        /\ received[a] = <<1, 2, 3>>
        /\ received[b] = <<1, 2, 3>>

\* ------------------------------------------------------------------ C15
\* C15: after one client's bridge has ended, every other observer of the
\* job goes on receiving every notification: each bridge that is still open
\* holds exactly the notifications issued since it registered.
C15_OthersKeepReceiving ==
    \A b \in Bridges :
        Open(b) => received[b] = Upto(regAt[b], Len(notifyLog[bjob[b]]))

\* ------------------------------------------------------------------ C16
\* C16: whatever the bridges do, the job runs as it does without them: the
\* only exceptions its executor sees are those of the collaborators, the
\* error of the job is None or the text of one of them, and the executor
\* ends by returning, never by an exception.
C16_BridgesNeverAffectJob ==
    \A j \in Created :
        /\ exc[j] \in Msgs \cup {NoExc}
        /\ jobs[j].error \in Msgs \cup {NoError}
        /\ pc[j] # "raised"

\* ------------------------------------------------------------------ C17
\* C17: the end of a bridge removes its own observer and no other: a bridge
\* that is still open is still in the callback list of its job.
C17_OnlyOwnObserverRemoved ==
    \A b \in Bridges : Open(b) => Registered(b)

\* ------------------------------------------------------------------ C18
\* C18: the snapshots a bridge yields carry non-decreasing current_frame
\* values, and the notifications reach its queue in the order the executor
\* issued them: the queue holds them in strictly increasing order of issue,
\* and each snapshot yielded has a current_frame not below the one before.
C18_NonDecreasingFrames ==
    /\ [](\A b \in Bridges :
            \A i, k \in DOMAIN received[b] :
                i < k => received[b][i] < received[b][k])
    /\ [][\A b \in Bridges :
            sent'[b].n > sent[b].n => sent'[b].frame >= sent[b].frame]_vars

\* A bridge has taken two notifications from its queue and yielded three
\* snapshots, the latest with the last frame of the job.
C18_Witness ==
    \E b \in Bridges :
        /\ Open(b)
        /\ taken[b] >= 2
        /\ sent[b].n - sent[b].keepalives >= 3
        /\ sent[b].frame = BridgeFrames

\* ------------------------------------------------------------------ C19
\* The first event b yielded, the job as it was when b connected, was a
\* terminal snapshot.
OpenedOnTerminal(b) ==
    /\ sent[b].terminals >= 1
    /\ sent[b].n - sent[b].late = 1

\* C19: a bridge opened against a job that is already COMPLETED or FAILED
\* yields exactly one event, the terminal snapshot, never waits for updates
\* or sends a keepalive, and once closed has no observer registered.
C19_TerminalJobOneEvent ==
    \A b \in Bridges :
        OpenedOnTerminal(b) =>
            /\ sent[b].n = 1
            /\ sent[b].terminals = 1
            /\ sent[b].keepalives = 0
            /\ bpc[b] \in {"sent_initial", "closed"}
            /\ bpc[b] = "closed" => ~Registered(b)

\* A bridge connected to a FAILED job, yielded its one event and closed.
C19_Witness ==
    \E b \in Bridges :
        /\ bpc[b] = "closed"
        /\ OpenedOnTerminal(b)
        /\ sent[b].n = 1
        /\ jobs[bjob[b]].status = FAILED
        /\ callbacks[bjob[b]] = <<>>

\* ------------------------------------------------------------------ C20
\* C20: a bridge opened against an active job yields exactly one terminal
\* snapshot over its lifetime and nothing after it: never more than one,
\* never an event after one, and a bridge that has ended its stream itself
\* has yielded one.
C20_ExactlyOneTerminalSnapshot ==
    \A b \in Bridges :
        ~OpenedOnTerminal(b) =>
            /\ sent[b].terminals <= 1
            /\ sent[b].late = 0
            /\ bpc[b] = "closed" => sent[b].terminals = 1

\* ------------------------------------------------------------------ C21
\* C21: every client learns the outcome: a bridge open on a job that has
\* become terminal emits a terminal snapshot before it closes.  A bridge
\* ends its own stream only when it sees a terminal status, and a closed
\* bridge emits nothing more, so: every bridge that has ended its own
\* stream has emitted a terminal snapshot.
C21_ClosedAfterTerminalSnapshot ==
    \A b \in Bridges :
        bpc[b] = "closed" =>
            /\ jobs[bjob[b]].status \in Terminal
            /\ sent[b].terminals >= 1

\* ------------------------------------------------------------------ C22
\* C22: a status query or a progress-stream open for an id that is not in
\* the registry is answered not-found and changes nothing: a request for an
\* unknown id is answered 404, and the step that answers 404 leaves the
\* registry, the observers, the gate and the executors as they were.
C22_NotFoundChangesNothing ==
    [][reply' # reply =>
          /\ (reply'.job \notin Created) <=> (reply'.code = 404)
          /\ reply'.code = 404 =>
                /\ UNCHANGED <<jobs, callbacks, currentJob, pc>>
                /\ UNCHANGED serviceVars
                /\ UNCHANGED bridgeVars]_vars

\* A progress stream was asked for an unknown id while a job is running.
C22_Witness ==
    /\ reply.handler = "progress"
    /\ reply.code = 404
    /\ reply.job \notin Created
    /\ \E j \in Created : currentJob = j /\ jobs[j].status = GENERATING

\* ------------------------------------------------------------------ C23
\* C23: a creation request with a parameter outside its range is answered
\* with a validation error, adds no Job and does not touch the gate, so
\* every Job in the registry has temperature in [0.1, 2.0], topk in
\* [1, 200], cfg_scale in [1.0, 3.0] and max_audio_length_ms in
\* [60000, 480000].
C23_InvalidRequestNoEffect ==
    /\ [](\A j \in Created :
            /\ jobs[j].temperature \in 10..200
            /\ jobs[j].topk \in 1..200
            /\ jobs[j].cfg_scale \in 100..300
            /\ jobs[j].max_audio_length_ms \in 60000..480000)
    /\ [][(lastResp' # lastResp /\ lastResp'.code = 422) =>
              UNCHANGED <<jobs, currentJob, pc, callbacks>>]_vars

\* A request was refused while a job with every parameter at the upper end
\* of its range holds the gate.
C23_Witness ==
    /\ lastResp.code = 422
    /\ \E j \in Created :
          /\ currentJob = j
          /\ jobs[j].temperature = 200
          /\ jobs[j].topk = 200
          /\ jobs[j].cfg_scale = 300
          /\ jobs[j].max_audio_length_ms = 480000

\* ------------------------------------------------------------------ C24
\* C24: jobs are retained and lookup is pure: a Job that is in the registry
\* stays in it under its id in every later state, also once it is terminal,
\* with the id and the parameters it was created with, and a step in which
\* a GET handler looks a job up changes nothing but the answer.
C24_RetainedAndPureLookup ==
    /\ [](\A j \in Created : jobs[j].job_id = j)
    /\ [][\A j \in Created :
            /\ j \in DOMAIN jobs'
            /\ jobs'[j].job_id = jobs[j].job_id
            /\ jobs'[j].max_audio_length_ms = jobs[j].max_audio_length_ms]_vars
    /\ [][reply' # reply =>
            /\ UNCHANGED serviceVars
            /\ UNCHANGED bridgeVars
            /\ UNCHANGED <<loaderVars, downloadVars, llmVars>>]_vars

\* The status of a job that ended some time ago is read, a later job being
\* in the registry as well.
C24_Witness ==
    \E j \in Created :
        /\ reply.handler = "status" /\ reply.code = 200 /\ reply.job = j
        /\ reply.body.status \in Terminal
        /\ pc[j] = "done"
        /\ Len(jobs) > j

\* ------------------------------------------------------------------ C25
\* C25: load_pipeline is thread-safe and idempotent: in every interleaving
\* of concurrent calls from_pretrained is run by one thread at a time and
\* returns a pipeline at most once, a loaded pipeline is never replaced and
\* a call that finds it loaded returns without constructing, a call that
\* fails leaves is_loaded false, and a call that finds the pipeline
\* unloaded runs from_pretrained again.
C25_LoadOnceIdempotent ==
    /\ [](built <= 1 /\ (IsLoaded <=> built = 1))
    /\ [](\A t, u \in Threads :
            lpc[t] = "from_pretrained" /\ lpc[u] = "from_pretrained" => t = u)
    /\ [](\A t \in Threads :
            lpc[t] \in {"check", "from_pretrained", "release"} => lock = t)
    /\ [][IsLoaded => UNCHANGED <<pipeline, built>>]_vars
    /\ [][\A t \in Threads :
            lpc[t] = "check" /\ lpc'[t] # "check" =>
                IF IsLoaded
                THEN /\ lpc'[t] = "release"
                     /\ loadResult'[t] = "skipped"
                     /\ UNCHANGED <<pipeline, built>>
                ELSE lpc'[t] = "from_pretrained"]_vars
    /\ [][\A t \in Threads :
            lpc[t] = "from_pretrained" /\ lpc'[t] = "release" =>
                \/ loadResult'[t] = "loaded" /\ IsLoaded' /\ built' = 1
                \/ loadResult'[t] = "failed" /\ ~IsLoaded' /\ built' = 0]_vars

\* One thread's call has failed, another thread's later call has loaded
\* the pipeline, and the first thread, calling again, is about to find it
\* loaded.
C25_Witness ==
    \E t, u \in Threads :
        /\ t # u
        /\ loadResult[t] = "failed" /\ loadCalls[t] = 2 /\ lpc[t] = "check"
        /\ loadResult[u] = "loaded"
        /\ IsLoaded /\ built = 1

\* ------------------------------------------------------------------ C26
\* C26: the output location of a job is "/output/<job_id>.mp3", a function
\* of its job id alone: a job's output_path is unset or that location, a
\* COMPLETED job has it set, two different jobs never have the same
\* location, and GET /download answers 200 only for a job whose status is
\* COMPLETED, with that location.
C26_OutputPathOfJobId ==
    /\ \A j \in Created :
          /\ jobs[j].output_path \in {NoPath, OutputPath(jobs[j].job_id)}
          /\ jobs[j].status = COMPLETED =>
                jobs[j].output_path = OutputPath(j)
    /\ \A j, k \in Created :
          j # k /\ jobs[j].output_path # NoPath =>
              jobs[j].output_path # jobs[k].output_path
    /\ (reply.handler = "download" /\ reply.code = 200) =>
          /\ reply.job \in Created
          /\ jobs[reply.job].status = COMPLETED
          /\ reply.body = OutputPath(reply.job)

\* Two jobs have completed and the download of the first has been answered.
C26_Witness ==
    /\ reply.handler = "download" /\ reply.code = 200 /\ reply.job = 1
    /\ \A j \in 1..2 : j \in Created /\ jobs[j].status = COMPLETED

\* ------------------------------------------------------------------ C27
\* C27: during GENERATING the seed unit is not counted and every unit kept
\* afterwards is counted and notified by itself: whenever the Executor is
\* about to request the next unit (or to leave the loop), the seed has been
\* produced once, current_frame is the number of units kept after it (0
\* right after the seed), progress is current_frame / total_frames once a
\* unit was kept, and _notify_progress has been called exactly once per
\* kept unit since the notification of GENERATING, the last time with this
\* current_frame and progress; current_frame only ever changes by +1.
C27_AdvanceAndNotifyPerUnit ==
    /\ [](\A j \in Created :
            pc[j] = "loop" =>
                /\ jobs[j].status = GENERATING
                /\ calls[j]["seed"] = 1
                /\ calls[j]["frame"] = idx[j]
                /\ jobs[j].current_frame = idx[j]
                /\ jobs[j].progress =
                       IF idx[j] = 0 THEN Frac(0, 1)
                       ELSE Frac(jobs[j].current_frame, jobs[j].total_frames)
                /\ Len(notifyLog[j]) = 2 + idx[j]
                /\ LastNotified(j).status = GENERATING
                /\ LastNotified(j).current_frame = jobs[j].current_frame
                /\ LastNotified(j).progress = jobs[j].progress)
    /\ [][\A j \in Created :
            jobs'[j].current_frame # jobs[j].current_frame =>
                /\ jobs'[j].current_frame = jobs[j].current_frame + 1
                /\ calls[j]["frame"] = jobs'[j].current_frame]_vars

\* Two units have been kept after the seed, each counted and notified.
C27_Witness ==
    \E j \in Created :
        /\ pc[j] = "loop" /\ idx[j] = 2
        /\ jobs[j].current_frame = 2
        /\ jobs[j].progress = Frac(2, 2)
        /\ Len(notifyLog[j]) = 4

\* ------------------------------------------------------------------ C28
\* C28: the Notifier fires on every status entry: a job leaves a status it
\* was moved to (LOADING, GENERATING) only after _notify_progress has been
\* called with the job in that status, and a terminal status (COMPLETED,
\* and FAILED as well) has been notified when the Executor goes on to
\* release the gate and ends.
C28_StatusEntryNotified ==
    /\ [][\A j \in Created :
            (jobs'[j].status # jobs[j].status /\ jobs[j].status # QUEUED) =>
                /\ notifyLog[j] # <<>>
                /\ LastNotified(j).status = jobs[j].status]_vars
    /\ [](\A j \in Created :
            pc[j] \in {"release", "done"} =>
                /\ jobs[j].status \in Terminal
                /\ notifyLog[j] # <<>>
                /\ LastNotified(j).status = jobs[j].status)

\* A job failed while GENERATING: LOADING, GENERATING and FAILED were each
\* notified, FAILED last, and the Executor has ended.
C28_Witness ==
    \E j \in Created :
        /\ pc[j] = "done"
        /\ jobs[j].status = FAILED
        /\ Len(notifyLog[j]) >= 3
        /\ notifyLog[j][1].status = LOADING
        /\ notifyLog[j][2].status = GENERATING
        /\ LastNotified(j).status = FAILED

\* ------------------------------------------------------------------ C29
\* C29: notify never fails the Executor: a call of _notify_progress that
\* has found observers for the job hands the update to them and returns to
\* its call site, leaving the job's fields and the exception state of the
\* Executor as they were.
C29_NotifyAlwaysReturns ==
    [][\A j \in Created :
          (pc[j] \in IterLabels /\ pc'[j] # pc[j]) =>
              /\ pc'[j] = ReturnLabel(pc[j])
              /\ exc'[j] = exc[j]
              /\ jobs'[j] = jobs[j]]_vars

\* ------------------------------------------------------------------ C30
\* C30: a wait of a bridge that times out, nothing having been delivered,
\* makes it emit exactly one keepalive and then read the job again: if the
\* job is terminal the bridge emits it as one more, terminal, snapshot and
\* ends, otherwise it emits nothing, stays registered and waits again (in
\* either case unless the client has gone); and a wait that is ended by a
\* delivery emits the update and no keepalive.
C30_KeepaliveThenRepoll ==
    [][\A b \in Bridges :
          /\ sent'[b].keepalives > sent[b].keepalives =>
                /\ bpc[b] = "waiting" /\ bpc'[b] = "sent_keepalive"
                /\ taken[b] = Len(received[b])
                /\ sent'[b].keepalives = sent[b].keepalives + 1
                /\ sent'[b].n = sent[b].n + 1
                /\ sent'[b].terminals = sent[b].terminals
          /\ (bpc[b] = "sent_keepalive" /\ bpc'[b] \notin
                  {"sent_keepalive", "disconnected"}) =>
                IF jobs[bjob[b]].status \in Terminal
                THEN /\ bpc'[b] = "sent_final"
                     /\ sent'[b].n = sent[b].n + 1
                     /\ sent'[b].terminals = sent[b].terminals + 1
                     /\ sent'[b].keepalives = sent[b].keepalives
                ELSE /\ bpc'[b] = "waiting"
                     /\ sent'[b] = sent[b]
                     /\ callbacks' = callbacks
          /\ (bpc[b] = "sent_final" /\ bpc'[b] \notin
                  {"sent_final", "disconnected"}) =>
                /\ bpc'[b] = "closed"
                /\ sent'[b] = sent[b]
          /\ (bpc[b] = "waiting" /\ taken'[b] > taken[b]) =>
                /\ bpc'[b] = "sent_update"
                /\ sent'[b].keepalives = sent[b].keepalives
                /\ sent'[b].n = sent[b].n + 1]_vars

\* A bridge sent the first snapshot and, its wait having timed out, one
\* keepalive, then found the job terminal, sent it as the final snapshot and
\* ended.
C30_Witness ==
    \E b \in Bridges :
        /\ bpc[b] = "closed"
        /\ sent[b].keepalives = 1
        /\ sent[b].terminals = 1
        /\ sent[b].n = 3

\* ------------------------------------------------------------------ C31
\* C31: whenever a job is in LOADING or GENERATING the gate slot holds that
\* job's id, so the slot is empty only when no job is in an active phase;
\* and once the Executor of a job has ended with the job terminal, the slot
\* does not hold that job's id.
C31_SlotHoldsActiveJob ==
    /\ \A j \in Created : jobs[j].status \in Active => currentJob = j
    /\ currentJob = NoJob => \A j \in Created : jobs[j].status \notin Active
    /\ \A j \in Created :
          (jobs[j].status \in Terminal /\ Exited(j)) => currentJob # j

\* ------------------------------------------------------------------ C32
\* C32: whatever the interleaving of the reader with the field writes of
\* the executor thread, a snapshot that GET /status reports with status
\* COMPLETED carries progress 1.0 and an output_path, and one it reports
\* with status FAILED carries an error.
C32_ReportedSnapshotsConsistent ==
    (reply.handler = "status" /\ reply.code = 200) =>
        /\ reply.body.status = COMPLETED =>
              /\ FracEq(reply.body.progress, Frac(1, 1))
              /\ reply.body.output_path # NoPath
        /\ reply.body.status = FAILED => reply.body.error # NoError

\* ------------------------------------------------------------------ C33
\* C33: model download is single-flight: at no time are two
\* download_all_models tasks in their loop, and at no time are two accepted
\* downloads unfinished, that is, no POST /download is accepted between the
\* acceptance of a download and its end.
C33_SingleFlightDownload ==
    /\ Cardinality({r \in Downloads : dtask[r].at = "awaiting"}) <= 1
    /\ Cardinality({r \in Downloads : dtask[r].at \in {"added", "awaiting"}})
           <= 1

\* ------------------------------------------------------------------ C34
\* C34: after every PUT /llm, accepted or rejected, the runtime model is
\* one of the models of the runtime provider, and a PUT /llm that is
\* answered 400 leaves the runtime provider and model as they were.
C34_ModelOfProvider ==
    [][(putResp' # putResp \/ runtimeSettings' # runtimeSettings) =>
          /\ runtimeSettings'.model \in
                 PROVIDERS[runtimeSettings'.provider].models
          /\ putResp'.code = 400 =>
                 /\ runtimeSettings'.provider = runtimeSettings.provider
                 /\ runtimeSettings'.model = runtimeSettings.model]_vars

====
